---- MODULE Spec2Model ----
(***************************************************************************)
(* The OLC prototype wizard of evennia/prototypes/menus.py as a state      *)
(* machine: the menu-tree attributes olc_prototype / olc_new, the active   *)
(* node with the options it returned, and one action per user turn.        *)
(*                                                                         *)
(* Python values are modelled as follows.                                  *)
(*   text        a sequence of one-character strings, <<"a", ",", "b">>    *)
(*   value       [kind, items]: a str holds one text, a list several       *)
(*   dict        a function whose DOMAIN is the set of keys present        *)
(*   None        the string "<None>" where a node name is expected         *)
(* The file is Python 2 code (line 150: "remove this when on py3"), so a   *)
(* name bound by "except E as err" stays bound after the handler.          *)
(***************************************************************************)
EXTENDS Naturals, Sequences, FiniteSets, TLC

VARIABLES
    node,           \* name of the active node (EvMenu.nodename)
    node_kwargs,    \* the kwargs the active node was entered with
    options,        \* the options the active node returned
    olc_prototype,  \* caller.ndb._menutree.olc_prototype
    olc_new,        \* caller.ndb._menutree.olc_new: "unset", "True" or "False"
    msgs,           \* what caller.msg received during the last turn
    registry,       \* the saved prototypes protlib searches and saves
    objects,        \* the spawned objects, each tagged with its prototype key
    calls,          \* the committing service calls made during the last turn
    validated,      \* argument and verdict of the last _validate_prototype
    last,           \* what the last turn did: option, input, goto result, node outcome
    trail,          \* the navigation options chosen in the last two turns
    muts,           \* number of turns so far that changed template or objects
    h               \* direct calls of _set_property: arguments and results

vars == <<node, node_kwargs, options, olc_prototype, olc_new, msgs, registry,
          objects, calls, validated, last, trail, muts, h>>

----------------------------------------------------------------------------
(* Bounds *)

\* longest raw input handed to _set_property when it is called directly
MaxLen == 2
\* turns of one wizard session that may change the template or spawn
MaxMuts == 1
\* objects that may exist
MaxObjects == 2
\* calls of the attribute and tag callables on one template
MaxCalls == 2
\* calls of the field handlers on one template
MaxFieldCalls == 3

----------------------------------------------------------------------------
(* Text and values *)

Alphabet == {" ", ",", "[", "1", "a", "A"}

Texts(n) == UNION {[1..k -> Alphabet] : k \in 0..n}

None == "<None>"

NoKwargs == [k \in {} |-> TRUE]

EmptyDict == [k \in {} |-> TRUE]

KwGet(kw, name, default) == IF name \in DOMAIN kw THEN kw[name] ELSE default

Str(t) == [kind |-> "str", items |-> <<t>>]

List(ts) == [kind |-> "list", items |-> ts]

Int(t) == [kind |-> "int", items |-> <<t>>]

\* Python truth value: "" and [] are false, [""] is true, 0 is false
Truthy(v) ==
    CASE v.kind = "str" -> v.items[1] # <<>>
      [] v.kind = "list" -> v.items # <<>>
      [] OTHER -> \E i \in 1..Len(v.items[1]) : v.items[1][i] # "0"

RECURSIVE lstrip(_)
lstrip(t) == IF t # <<>> /\ Head(t) = " " THEN lstrip(Tail(t)) ELSE t

RECURSIVE rstrip(_)
rstrip(t) ==
    IF t # <<>> /\ t[Len(t)] = " " THEN rstrip(SubSeq(t, 1, Len(t) - 1)) ELSE t

\* str.strip()
strip(t) == rstrip(lstrip(t))

\* str.lower()
lower(t) == [i \in 1..Len(t) |-> IF t[i] = "A" THEN "a" ELSE t[i]]

RECURSIVE split_acc(_, _)
split_acc(t, cur) ==
    IF t = <<>> THEN <<cur>>
    ELSE IF Head(t) = "," THEN <<cur>> \o split_acc(Tail(t), <<>>)
    ELSE split_acc(Tail(t), Append(cur, Head(t)))

\* str.split(","): always at least one part
split(t) == split_acc(t, <<>>)

\* [part.strip() for part in parts]
strip_each(parts) == [i \in 1..Len(parts) |-> strip(parts[i])]

\* [str(part.strip().lower()) for part in parts]
strip_lower_each(parts) == [i \in 1..Len(parts) |-> lower(strip(parts[i]))]

IsDigits(t) == t # <<>> /\ \A i \in 1..Len(t) : t[i] \in {"0", "1"}

\* The processors the field nodes hand to _set_property, by the line that
\* defines them, and int, a callable that raises on malformed input.
\* Result: whether the call raised, and the value otherwise.
ApplyProcessor(processor, raw) ==
    CASE processor = "strip" ->
            [raised |-> FALSE, value |-> Str(strip(raw))]
      [] processor = "split_strip" ->
            [raised |-> FALSE, value |-> List(strip_each(split(raw)))]
      [] processor = "split_strip_lower_str" ->
            [raised |-> FALSE, value |-> List(strip_lower_each(split(raw)))]
      [] processor = "strip_lower" ->
            [raised |-> FALSE, value |-> Str(lower(strip(raw)))]
      [] processor = "str" ->
            [raised |-> FALSE, value |-> Str(raw)]
      [] processor = "int" ->
            IF IsDigits(strip(raw))
            THEN [raised |-> FALSE, value |-> Int(strip(raw))]
            ELSE [raised |-> TRUE, value |-> Str(raw)]

callable(processor) == processor # "None"

\* protlib.protfunc_parser(value, testing=True): the (err, parsed) pair; err
\* is a literal_eval warning, here for a text holding an unclosed bracket
protfunc_parser(value) ==
    [err |-> \E i \in 1..Len(value.items) :
                \E j \in 1..Len(value.items[i]) : value.items[i][j] = "["]

----------------------------------------------------------------------------
(* Session helpers.  A session s is the record                             *)
(*   [proto, new, msgs, registry, objects, calls, validated]               *)
(* that the helpers and nodes read and update.                             *)

Msg(s, m) == [s EXCEPT !.msgs = Append(@, m)]

\* dict with d[field] = value
DictSet(d, field, value) ==
    [k \in DOMAIN d \cup {field} |-> IF k = field THEN value ELSE d[k]]

_get_menu_prototype(s) ==
    IF s.proto = EmptyDict
    THEN [s EXCEPT !.proto = EmptyDict, !.new = "True"]
    ELSE s

_set_menu_prototype(s, prototype) ==
    [s EXCEPT !.proto = prototype, !.new = "False"]

_is_new_prototype(s) == s.new # "unset"

\* a plausible slip: the field is written into a fresh dict
_set_prototype_value_fresh(s, field, value) ==
    [_get_menu_prototype(s) EXCEPT !.proto = DictSet(EmptyDict, field, value)]

_set_prototype_value(s, field, value) ==
    LET s1 == _get_menu_prototype(s)
    IN [s1 EXCEPT !.proto = DictSet(s1.proto, field, value)]

\* the value _set_property works on: processor(raw_string), or raw_string
\* itself without a processor
Processed(raw_string, kwargs) ==
    IF callable(KwGet(kwargs, "processor", "None"))
    THEN ApplyProcessor(KwGet(kwargs, "processor", "None"), raw_string)
    ELSE [raised |-> FALSE, value |-> Str(raw_string)]

\* the report _set_property sends after a write
SetReport(s, value, test_parse) ==
    IF test_parse
    THEN IF protfunc_parser(value).err
         THEN Msg(Msg(Msg(s, "set"), "simulating"), "literal_eval_warning")
         ELSE Msg(Msg(s, "set"), "simulating")
    ELSE Msg(s, "set")

\* a plausible slip: the failure branch stores the raw input
_set_property_store_on_error(s, res, prop, next_node, test_parse) ==
    IF res.raised \/ Truthy(res.value)
    THEN [s |-> SetReport(_set_prototype_value(s, prop, res.value), res.value,
                          test_parse),
          ret |-> next_node]
    ELSE [s |-> s, ret |-> next_node]

\* a plausible slip: a list value is added to the list already stored
_set_property_extend(s, res, prop, next_node, test_parse) ==
    IF res.raised THEN [s |-> Msg(s, "could_not_set"), ret |-> None]
    ELSE IF ~Truthy(res.value) THEN [s |-> s, ret |-> next_node]
    ELSE IF res.value.kind = "list" /\ prop \in DOMAIN s.proto
    THEN [s |-> SetReport(_set_prototype_value(
                              s, prop, List(s.proto[prop].items \o res.value.items)),
                          res.value, test_parse),
          ret |-> next_node]
    ELSE [s |-> SetReport(_set_prototype_value(s, prop, res.value), res.value,
                          test_parse),
          ret |-> next_node]

\* _set_property from the processor's result res on (lines 132-170): the
\* session afterwards and the returned node name (None: stay on the node)
_set_property_result(s, res, prop, next_node, test_parse) ==
    IF res.raised
    THEN [s |-> Msg(s, "could_not_set"), ret |-> None]
    ELSE IF ~Truthy(res.value)
    THEN [s |-> s, ret |-> next_node]
    ELSE [s |-> SetReport(_set_prototype_value(s, prop, res.value), res.value,
                          test_parse),
          ret |-> next_node]

\* The goto callable of the free-text fields
_set_property(s, raw_string, kwargs) ==
    _set_property_result(s, Processed(raw_string, kwargs),
                         KwGet(kwargs, "prop", "prototype_key"),
                         KwGet(kwargs, "next_node", "node_index"),
                         KwGet(kwargs, "test_parse", TRUE))

----------------------------------------------------------------------------
(* Collaborating services: the template registry, the lock handler and the *)
(* spawner, by the interfaces the menu calls.                               *)

ObjectTypeclass == <<"typeclasses.objects.Object">>

\* a saved prototype anyone may edit
ProtoA ==
    [k \in {"prototype_key", "typeclass", "prototype_locks"} |->
        CASE k = "prototype_key" -> Str(<<"a">>)
          [] k = "typeclass" -> Str(ObjectTypeclass)
          [] OTHER -> Str(<<"edit:all()">>)]

\* a saved prototype nobody may edit, child of the first
Proto1 ==
    [k \in {"prototype_key", "prototype_parent", "prototype_locks"} |->
        CASE k = "prototype_key" -> Str(<<"1">>)
          [] k = "prototype_parent" -> Str(<<"a">>)
          [] OTHER -> Str(<<"edit:false()">>)]

RegistryInit == [k \in {<<"a">>, <<"1">>} |-> IF k = <<"a">> THEN ProtoA ELSE Proto1]

\* protlib.search_prototype(key): the matches, as a list
search_prototype(s, key) ==
    IF lower(key) \in DOMAIN s.registry THEN <<s.registry[lower(key)]>> ELSE <<>>

\* protlib.search_prototype(): every saved prototype, in key order
search_all_prototypes(s) ==
    LET present(k) == IF k \in DOMAIN s.registry THEN <<s.registry[k]>> ELSE <<>>
    IN present(<<"1">>) \o present(<<"a">>)

\* caller.locks.check_lockstring(caller, lockstring, access_type='edit')
check_lockstring(lockstring) == lockstring # Str(<<"edit:false()">>)

RECURSIVE resolves_typeclass(_, _, _)
resolves_typeclass(s, prototype, depth) ==
    \/ "typeclass" \in DOMAIN prototype
    \/ /\ depth > 0
       /\ "prototype_parent" \in DOMAIN prototype
       /\ LET found == search_prototype(s, prototype["prototype_parent"].items[1])
          IN found # <<>> /\ resolves_typeclass(s, found[1], depth - 1)

warns(prototype) == \E k \in DOMAIN prototype : protfunc_parser(prototype[k]).err

\* spawner.spawn(prototype, only_validate=True): what it raises
spawn_only_validate(s, prototype) ==
    IF ~resolves_typeclass(s, prototype, Cardinality(DOMAIN s.registry))
    THEN "RuntimeError"
    ELSE IF warns(prototype) THEN "RuntimeWarning" ELSE "ok"

\* protlib.search_objects_with_prototype(prototype_key): the tagged objects
search_objects_with_prototype(s, prototype_key) ==
    SelectSeq(s.objects, LAMBDA o : o.prototype_key = prototype_key)

----------------------------------------------------------------------------
(* Options and node results *)

Goto(name) == [fn |-> "", node |-> name, kwargs |-> NoKwargs]

GotoKw(name, kw) == [fn |-> "", node |-> name, kwargs |-> kw]

Call(fn, kw) == [fn |-> fn, node |-> "", kwargs |-> kw]

Opt(key, goto) == [key |-> key, goto |-> goto]

Pair(s, opts) == [s |-> s, ret |-> "pair", exc |-> "", options |-> opts]

Raises(s, exc) == [s |-> s, ret |-> "raise", exc |-> exc, options |-> <<>>]

ReturnsNone(s) == [s |-> s, ret |-> "none", exc |-> "", options |-> <<>>]

\* str.format: a named field without its keyword is a KeyError, more
\* automatic fields than positional arguments an IndexError
FormatRaises(named, auto, nargs, kwnames) ==
    ~(named \subseteq kwnames) \/ auto > nargs

\* the names the module defines at top level that nodes refer to
ModuleNames ==
    {"_get_menu_prototype", "_get_flat_menu_prototype", "_set_menu_prototype",
     "_is_new_prototype", "_format_option_value", "_set_prototype_value",
     "_set_property", "_wizard_options", "_path_cropper", "_validate_prototype",
     "_format_protfuncs", "_format_lockfuncs", "_get_current_value"}

\* a plausible slip: Validate does not pass the node to come back to
_wizard_options_no_validate(curr_node, prev_node, next_node) ==
    (IF prev_node # None THEN <<Opt("back", Goto("node_" \o prev_node))>> ELSE <<>>)
    \o (IF next_node # None THEN <<Opt("forward", Goto("node_" \o next_node))>> ELSE <<>>)
    \o (IF "index" \notin {prev_node, next_node}
        THEN <<Opt("index", Goto("node_index"))>> ELSE <<>>)
    \o (IF curr_node # None
        THEN <<Opt("validate", Goto("node_validate_prototype"))>>
        ELSE <<>>)

_wizard_options(curr_node, prev_node, next_node) ==
    (IF prev_node # None THEN <<Opt("back", Goto("node_" \o prev_node))>> ELSE <<>>)
    \o (IF next_node # None THEN <<Opt("forward", Goto("node_" \o next_node))>> ELSE <<>>)
    \o (IF "index" \notin {prev_node, next_node}
        THEN <<Opt("index", Goto("node_index"))>> ELSE <<>>)
    \o (IF curr_node # None
        THEN <<Opt("validate",
                   GotoKw("node_validate_prototype", [back |-> curr_node]))>>
        ELSE <<>>)

\* the verdict on record: the session remembers what was validated
Verdict(s, prototype, raised, err) ==
    [s |-> [s EXCEPT !.validated = [done |-> TRUE, prototype |-> prototype,
                                    raised |-> raised, err |-> err]],
     err |-> err]

\* the (err, text) pair, and the session remembering the verdict
_validate_prototype(s, prototype) ==
    Verdict(s, prototype, spawn_only_validate(s, prototype),
            spawn_only_validate(s, prototype) \in {"RuntimeError", "RuntimeWarning"})

\* the session after the call; the text is one of the node's format arguments
_get_current_value(s, keyname) == _get_menu_prototype(s)

----------------------------------------------------------------------------
(* Goto callables: each yields the session afterwards, the value returned  *)
(* and the kwargs as the callable leaves them.                             *)

Ret(s, ret, kwargs) == [s |-> s, ret |-> ret, kwargs |-> kwargs]

\* "return ret" of what a helper returned
Returned(r) == Ret(r.s, r.ret, NoKwargs)

\* caller.msg(m), then "return ret"
MsgReturned(r, m) == Ret(Msg(r.s, m), r.ret, NoKwargs)

\* a plausible slip: the edit lock of the existing prototype is not checked
check_prototype_key_found_unlocked(s, key, old_prototype) ==
    IF old_prototype # <<>> /\ _is_new_prototype(s)
    THEN Ret(Msg([s EXCEPT !.new = "unset", !.proto = old_prototype[1]],
                 "exists_reloading"),
             "node_index", NoKwargs)
    ELSE Returned(_set_property(s, lower(strip(key)),
                                [prop |-> "prototype_key",
                                 next_node |-> "node_prototype_parent"]))

\* _check_prototype_key once old_prototype is looked up
check_prototype_key_found(s, key, old_prototype) ==
    IF old_prototype # <<>>
       /\ ~check_lockstring(old_prototype[1]["prototype_locks"])
    THEN Ret(Msg(s, "exists_no_permission"), "node_prototype_key", NoKwargs)
    ELSE IF old_prototype # <<>> /\ _is_new_prototype(s)
    THEN Ret(Msg([s EXCEPT !.new = "unset", !.proto = old_prototype[1]],
                 "exists_reloading"),
             "node_index", NoKwargs)
    ELSE Returned(_set_property(s, lower(strip(key)),
                                [prop |-> "prototype_key",
                                 next_node |-> "node_prototype_parent"]))

_check_prototype_key(s, key) ==
    check_prototype_key_found(s, key, search_prototype(s, key))

keys_of(prototypes) ==
    [i \in 1..Len(prototypes) |-> prototypes[i]["prototype_key"].items[1]]

_all_prototype_parents(s) ==
    keys_of(SelectSeq(search_all_prototypes(s),
                      LAMBDA p : "prototype_key" \in DOMAIN p))

_prototype_parent_examine(s, prototype_name) ==
    IF search_prototype(s, prototype_name) # <<>>
    THEN Ret(Msg(s, "prototype_to_str"), "<text>", NoKwargs)
    ELSE Ret(Msg(s, "not_registered"), None, NoKwargs)

_prototype_parent_select(s, prototype) ==
    MsgReturned(_set_property(s, <<>>, [prop |-> "prototype_parent",
                                        processor |-> "str",
                                        next_node |-> "node_typeclass"]),
                "selected_prototype")

_all_typeclasses(s) == <<ObjectTypeclass>>

_typeclass_examine(s, typeclass_path) ==
    IF typeclass_path = None
    THEN Ret(s, "node_key", NoKwargs)
    ELSE Ret(Msg(s, "typeclass_info"), "<text>", NoKwargs)

_typeclass_select(s, typeclass) ==
    MsgReturned(_set_property(s, typeclass, [prop |-> "typeclass",
                                             processor |-> "str",
                                             next_node |-> "node_key"]),
                "selected_typeclass")

\* prototype.get(field, []) of a list field
ListField(prototype, field) ==
    IF field \in DOMAIN prototype THEN prototype[field].items ELSE <<>>

_caller_attrs(s) == ListField(_get_menu_prototype(s).proto, "attrs")

_caller_tags(s) == ListField(_get_menu_prototype(s).proto, "tags")

\* a plausible slip: only the first object is handed to the bulk update
_update_spawned_first(s, kwargs) ==
    IF ~({"prototype", "objects", "back_node"} \subseteq DOMAIN kwargs)
    THEN Ret(s, "<raise>", kwargs)
    ELSE Ret(Msg([s EXCEPT !.calls =
                     Append(@, [op |-> "batch_update_objects_with_prototype",
                                prototype |-> kwargs["prototype"],
                                diff |-> KwGet(kwargs, "diff", None),
                                objects |-> SubSeq(kwargs["objects"], 1, 1)])],
                 "objects_updated"),
             kwargs["back_node"], kwargs)

\* spawner.batch_update_objects_with_prototype is reached from here only
_update_spawned(s, kwargs) ==
    IF ~({"prototype", "objects", "back_node"} \subseteq DOMAIN kwargs)
    THEN Ret(s, "<raise>", kwargs)
    ELSE Ret(Msg([s EXCEPT !.calls =
                     Append(@, [op |-> "batch_update_objects_with_prototype",
                                prototype |-> kwargs["prototype"],
                                diff |-> KwGet(kwargs, "diff", None),
                                objects |-> kwargs["objects"]])],
                 "objects_updated"),
             kwargs["back_node"], kwargs)

\* a plausible slip: every entry of the diff is set to KEEP
_keep_diff_all(s, kwargs) ==
    IF ~({"key", "diff"} \subseteq DOMAIN kwargs)
    THEN Ret(s, "<raise>", kwargs)
    ELSE Ret(s, None,
             [kwargs EXCEPT !["diff"] = [k \in DOMAIN @ \cup {kwargs["key"]} |->
                                           "KEEP"]])

\* a plausible slip: the override is applied to the objects at once
_keep_diff_applies(s, kwargs) ==
    IF ~({"key", "diff"} \subseteq DOMAIN kwargs)
    THEN Ret(s, "<raise>", kwargs)
    ELSE Ret([s EXCEPT !.calls =
                 Append(@, [op |-> "batch_update_objects_with_prototype",
                            prototype |-> kwargs["prototype"],
                            diff |-> DictSet(kwargs["diff"], kwargs["key"], "KEEP"),
                            objects |-> kwargs["objects"]])],
             None,
             [kwargs EXCEPT !["diff"] = DictSet(@, kwargs["key"], "KEEP")])

\* the diff dict is shared: the options and the kwargs see the new entry
_keep_diff(s, kwargs) ==
    IF ~({"key", "diff"} \subseteq DOMAIN kwargs)
    THEN Ret(s, "<raise>", kwargs)
    ELSE Ret(s, None,
             [kwargs EXCEPT !["diff"] = DictSet(@, kwargs["key"], "KEEP")])

CallerLocation == "caller.location"

\* the object spawner.spawn creates from a prototype
Spawned(prototype) ==
    [prototype_key |-> IF "prototype_key" \in DOMAIN prototype
                       THEN prototype["prototype_key"].items[1] ELSE <<>>,
     snapshot |-> prototype, live |-> prototype]

\* _spawn once the copy of the prototype has its location
spawn_prototype(s, kwargs, prototype, spawned) ==
    IF spawned
    THEN Ret(Msg([s EXCEPT !.calls = Append(@, [op |-> "spawn",
                                                prototype |-> prototype,
                                                template |-> kwargs["prototype"]]),
                           !.objects = Append(@, Spawned(prototype))],
                 "new_instance"),
             "<obj>", kwargs)
    ELSE Ret(Msg([s EXCEPT !.calls = Append(@, [op |-> "spawn",
                                                prototype |-> prototype,
                                                template |-> kwargs["prototype"]])],
                 "spawner_returned_nothing"),
             "<empty list>", kwargs)

\* spawned: whether spawner.spawn returned a non-empty list
_spawn(s, kwargs, spawned) ==
    spawn_prototype(s, kwargs,
                    IF KwGet(kwargs, "location", None) # None
                    THEN DictSet(kwargs["prototype"], "location",
                                 Str(<<kwargs["location"]>>))
                    ELSE kwargs["prototype"],
                    spawned)

_prototype_load_select(s, prototype_key) ==
    IF search_prototype(s, prototype_key) # <<>>
    THEN Ret(Msg(_set_menu_prototype(s, search_prototype(s, prototype_key)[1]),
                 "loaded"),
             "node_index", NoKwargs)
    ELSE Ret(Msg(s, "failed_to_load"), None, NoKwargs)

----------------------------------------------------------------------------
(* Menu nodes: each yields the session afterwards and either the options   *)
(* of its (text, options) pair, or the exception it raises.                *)

IndexKeys ==
    <<"Prototype-parent", "Typeclass", "Key", "Aliases", "Attrs", "Tags", "Locks",
      "Permissions", "Location", "Home", "Destination">>

MetaKeys == <<"Desc", "Tags", "Locks">>

\* str.lower() on the option names of node_index
word_lower(w) ==
    CASE w = "Prototype-parent" -> "prototype-parent"
      [] w = "Typeclass" -> "typeclass"
      [] w = "Key" -> "key"
      [] w = "Aliases" -> "aliases"
      [] w = "Attrs" -> "attrs"
      [] w = "Tags" -> "tags"
      [] w = "Locks" -> "locks"
      [] w = "Permissions" -> "permissions"
      [] w = "Location" -> "location"
      [] w = "Home" -> "home"
      [] w = "Destination" -> "destination"
      [] w = "Desc" -> "desc"

node_index(s) ==
    LET s1 == _get_menu_prototype(s)
    IN Pair(s1,
            <<Opt("Prototype-Key", Goto("node_prototype_key"))>>
            \o [i \in 1..Len(IndexKeys) |->
                   Opt(IndexKeys[i], Goto("node_" \o word_lower(IndexKeys[i])))]
            \o [i \in 1..Len(MetaKeys) |->
                   Opt("Prototype-" \o MetaKeys[i],
                       Goto("node_prototype_" \o word_lower(MetaKeys[i])))]
            \o <<Opt("validate", Goto("node_validate_prototype")),
                 Opt("save", Goto("node_prototype_save")),
                 Opt("spawn", Goto("node_prototype_spawn")),
                 Opt("load", Goto("node_prototype_load"))>>)

node_validate_prototype(s, kwargs) ==
    Pair(_validate_prototype(_get_menu_prototype(s),
                             _get_menu_prototype(s).proto).s,
         _wizard_options(None, KwGet(kwargs, "back", "index"), None))

node_prototype_key(s) ==
    LET s1 == _get_current_value(s, "prototype_key")
    IN Pair(s1, _wizard_options("prototype_key", "index", "prototype_parent")
                \o <<Opt("_default", Call("_check_prototype_key", NoKwargs))>>)

\* the decorated function; start_olc registers it wrapped in a list
node_prototype_parent(s) ==
    IF "prototype" \in DOMAIN _get_menu_prototype(s).proto
       /\ Truthy(_get_menu_prototype(s).proto["prototype"])
    THEN IF search_prototype(s, s.proto["prototype"].items[1]) # <<>>
         THEN IF FormatRaises({}, 2, 1, {})
              THEN Raises(s, "IndexError") ELSE Pair(s, <<>>)
         ELSE IF FormatRaises({"prototype"}, 0, 1, {})
              THEN Raises(s, "KeyError") ELSE Pair(s, <<>>)
    ELSE Pair(_get_menu_prototype(s),
              _wizard_options("prototype_parent", "prototype_key", "typeclass")
              \o <<Opt("_default", Call("_prototype_parent_examine", NoKwargs))>>)

node_typeclass(s) ==
    LET s1 == _get_current_value(s, "typeclass")
    IN Pair(s1, _wizard_options("typeclass", "prototype_parent", "key")
                \o <<Opt("_default", Call("_typeclass_examine", NoKwargs))>>)

node_key(s) ==
    LET s1 == _get_current_value(s, "key")
    IN Pair(s1, _wizard_options("key", "typeclass", "aliases")
                \o <<Opt("_default",
                         Call("_set_property",
                              [prop |-> "key", processor |-> "strip",
                               next_node |-> "node_aliases"]))>>)

node_aliases(s) ==
    LET s1 == _get_current_value(s, "aliases")
    IN Pair(s1, _wizard_options("aliases", "key", "attrs")
                \o <<Opt("_default",
                         Call("_set_property",
                              [prop |-> "aliases", processor |-> "split_strip",
                               next_node |-> "node_attrs"]))>>)

node_attrs(s) ==
    LET s1 == _get_current_value(s, "attrs")
    IN Pair(s1, _wizard_options("attrs", "aliases", "tags")
                \o <<Opt("_default",
                         Call("_set_property",
                              [prop |-> "attrs", processor |-> "split_strip",
                               next_node |-> "node_tags"]))>>)

node_tags(s) ==
    LET s1 == _get_current_value(s, "tags")
    IN IF FormatRaises({"tag_category"}, 0, 1, {})
       THEN Raises(s1, "KeyError")
       ELSE Pair(s1, _wizard_options("tags", "attrs", "locks"))

node_locks(s) ==
    LET s1 == _get_current_value(s, "locks")
    IN Pair(s1, _wizard_options("locks", "tags", "permissions")
                \o <<Opt("_default",
                         Call("_set_property",
                              [prop |-> "locks", processor |-> "strip",
                               next_node |-> "node_permissions"]))>>)

node_permissions(s) ==
    LET s1 == _get_current_value(s, "permissions")
    IN IF FormatRaises({"permissions"}, 0, 1, {})
       THEN Raises(s1, "KeyError")
       ELSE Pair(s1, _wizard_options("permissions", "destination", "location")
                     \o <<Opt("_default",
                              Call("_set_property",
                                   [prop |-> "permissions",
                                    processor |-> "split_strip",
                                    next_node |-> "node_location"]))>>)

node_location(s) ==
    LET s1 == _get_current_value(s, "location")
    IN Pair(s1, _wizard_options("location", "permissions", "home")
                \o <<Opt("_default",
                         Call("_set_property",
                              [prop |-> "location", processor |-> "strip",
                               next_node |-> "node_home"]))>>)

node_home(s) ==
    LET s1 == _get_current_value(s, "home")
    IN Pair(s1, _wizard_options("home", "aliases", "destination")
                \o <<Opt("_default",
                         Call("_set_property",
                              [prop |-> "home", processor |-> "strip",
                               next_node |-> "node_destination"]))>>)

node_destination(s) ==
    IF "_get_current_node" \notin ModuleNames
    THEN Raises(s, "NameError")
    ELSE Pair(s, _wizard_options("destination", "home", "prototype_desc")
                 \o <<Opt("_default",
                          Call("_set_property",
                               [prop |-> "dest", processor |-> "strip",
                                next_node |-> "node_prototype_desc"]))>>)

node_prototype_desc(s) ==
    LET s1 == _get_current_value(s, "prototype_desc")
    IN Pair(s1, _wizard_options("prototype_desc", "prototype_key", "prototype_tags")
                \o <<Opt("_default",
                         Call("_set_property",
                              [prop |-> "prototype_desc", processor |-> "strip",
                               next_node |-> "node_prototype_tags"]))>>)

node_prototype_tags(s) ==
    LET s1 == _get_current_value(s, "prototype_tags")
    IN Pair(s1, _wizard_options("prototype_tags", "prototype_desc", "prototype_locks")
                \o <<Opt("_default",
                         Call("_set_property",
                              [prop |-> "prototype_tags", processor |-> "split_strip_lower_str",
                               next_node |-> "node_prototype_locks"]))>>)

node_prototype_locks(s) ==
    LET s1 == _get_current_value(s, "prototype_locks")
    IN Pair(s1, _wizard_options("prototype_locks", "prototype_tags", "index")
                \o <<Opt("_default",
                         Call("_set_property",
                              [prop |-> "prototype_locks", processor |-> "strip_lower",
                               next_node |-> "node_index"]))>>)

----------------------------------------------------------------------------
(* Updating spawned objects *)

\* every key a template or a diff can hold, in sorted() order
SortedFields ==
    <<"aliases", "attrs", "dest", "home", "key", "location", "locks",
      "permissions", "prototype", "prototype_desc", "prototype_key",
      "prototype_locks", "prototype_parent", "prototype_tags", "tags",
      "typeclass">>

RECURSIVE flatten_prototype(_, _, _)
\* spawner.flatten_prototype: the parents' values, overridden by the child's
flatten_prototype(s, prototype, depth) ==
    IF depth = 0 \/ "prototype_parent" \notin DOMAIN prototype
    THEN prototype
    ELSE LET found == search_prototype(s, prototype["prototype_parent"].items[1])
             parent == IF found = <<>> THEN EmptyDict
                       ELSE flatten_prototype(s, found[1], depth - 1)
         IN [k \in DOMAIN parent \cup DOMAIN prototype |->
                IF k \in DOMAIN prototype THEN prototype[k] ELSE parent[k]]

\* a plausible slip: the live value is never looked at
Edited_never(obj, k) == FALSE

\* whether the object's live value of k is no longer its snapshot's
Edited(obj, k) ==
    \/ (k \in DOMAIN obj.live) # (k \in DOMAIN obj.snapshot)
    \/ (k \in DOMAIN obj.snapshot /\ obj.live[k] # obj.snapshot[k])

\* the diff of a flattened prototype against an object
DiffOf(flat, obj) ==
    [diff |-> [k \in {f \in DOMAIN flat : f \notin DOMAIN obj.snapshot
                                          \/ obj.snapshot[f] # flat[f]}
                     \cup (DOMAIN obj.snapshot \ DOMAIN flat) |->
                  IF k \notin DOMAIN flat THEN "REMOVE"
                  ELSE IF Edited(obj, k) THEN "REPLACE" ELSE "UPDATE"],
     obj_prototype |-> obj.snapshot]

\* spawner.prototype_diff_from_object: the (diff, obj_prototype) pair
prototype_diff_from_object(s, prototype, obj) ==
    DiffOf(flatten_prototype(s, prototype, Cardinality(DOMAIN s.registry)), obj)

_keep_option(keyname, prototype, obj, obj_prototype, diff, objs, back_node) ==
    Opt("keep " \o keyname,
        Call("_keep_diff",
             [key |-> keyname, prototype |-> prototype, obj |-> obj,
              obj_prototype |-> obj_prototype, diff |-> diff, objects |-> objs,
              back_node |-> back_node]))

\* the update, reset and back options
update_options(prototype, diff, objs, back_node) ==
    <<Opt("update",
          Call("_update_spawned",
               [prototype |-> prototype, objects |-> objs,
                back_node |-> back_node, diff |-> diff])),
      Opt("reset",
          GotoKw("node_update_objects",
                 [prototype |-> prototype, back_node |-> back_node,
                  objects |-> objs])),
      Opt("back", Goto(back_node))>>

RECURSIVE update_objects_loop(_, _, _, _, _, _, _, _, _)
\* the for loop of node_update_objects over the sorted keys of the diff, from
\* the i-th on; the options are extended and returned inside the loop body
update_objects_loop(s, keys, i, prototype, obj, obj_prototype, diff, objs, back_node) ==
    IF i > Len(keys) THEN ReturnsNone(s)
    ELSE IF keys[i] \notin DOMAIN obj_prototype THEN Raises(s, "KeyError")
    ELSE IF diff[keys[i]] = "KEEP"
    THEN update_objects_loop(s, keys, i + 1, prototype, obj, obj_prototype, diff,
                             objs, back_node)
    ELSE IF keys[i] \notin DOMAIN prototype THEN Raises(s, "KeyError")
    ELSE Pair(s,
              (IF diff[keys[i]] \in {"UPDATE", "REPLACE", "REMOVE"}
               THEN <<_keep_option(keys[i], prototype, obj, obj_prototype, diff,
                                   objs, back_node)>>
               ELSE <<>>)
              \o update_options(prototype, diff, objs, back_node))

\* node_update_objects from line 1156 on, obj being the sampled object
update_objects_render(s, prototype, obj, computed, objs, back_node) ==
    IF FormatRaises({"name", "dbref"}, 0, 2, {}) THEN Raises(s, "KeyError")
    ELSE update_objects_loop(
             s, SelectSeq(SortedFields, LAMBDA k : k \in DOMAIN computed.diff), 1,
             prototype, obj, computed.obj_prototype, computed.diff, objs,
             back_node)

\* the object random.choice(update_objects) draws for index pick
Choice(objs, pick) == objs[((pick - 1) % Len(objs)) + 1]

\* pick: the index random.choice draws
node_update_objects(s, kwargs, pick) ==
    IF KwGet(kwargs, "objects", <<>>) = <<>>
    THEN Pair(s, <<Opt("_default",
                       Goto(KwGet(kwargs, "back_node", "node_index")))>>)
    ELSE IF "diff" \in DOMAIN kwargs /\ kwargs["diff"] # EmptyDict
    THEN Raises(s, "UnboundLocalError")
    ELSE update_objects_render(
             s, KwGet(kwargs, "prototype", EmptyDict),
             Choice(kwargs["objects"], pick),
             prototype_diff_from_object(s, KwGet(kwargs, "prototype", EmptyDict),
                                        Choice(kwargs["objects"], pick)),
             kwargs["objects"], KwGet(kwargs, "back_node", "node_index"))

----------------------------------------------------------------------------
(* Save, spawn and load *)

\* protlib.save_prototype(**prototype)
save_prototype(s, prototype) ==
    IF "prototype_key" \in DOMAIN prototype
    THEN [s EXCEPT !.calls = Append(@, [op |-> "save_prototype",
                                        prototype |-> prototype]),
                   !.registry = DictSet(@, prototype["prototype_key"].items[1],
                                        prototype)]
    ELSE [s EXCEPT !.calls = Append(@, [op |-> "save_prototype",
                                        prototype |-> prototype])]

\* the prototype_key of a prototype, "" without one
KeyOf(prototype) ==
    IF "prototype_key" \in DOMAIN prototype
    THEN prototype["prototype_key"].items[1] ELSE <<>>

\* a plausible slip: the update prompt is shown for every object there is
save_done_any_object(s, prototype, spawned_objects) ==
    IF Len(s.objects) > 0
    THEN Pair(s, <<Opt("yes",
                       GotoKw("node_update_objects",
                              [accept_update |-> TRUE,
                               objects |-> s.objects,
                               prototype |-> prototype,
                               back_node |-> "node_prototype_save"])),
                   Opt("n", Goto("node_spawn")),
                   Opt("_default", Goto("node_spawn"))>>)
    ELSE Pair(s, <<Opt("_default", Goto("node_spawn"))>>)

\* node_prototype_save after the save (lines 1219-1239)
save_done(s, prototype, spawned_objects) ==
    IF Len(spawned_objects) > 0
    THEN Pair(s, <<Opt("yes",
                       GotoKw("node_update_objects",
                              [accept_update |-> TRUE,
                               objects |-> spawned_objects,
                               prototype |-> prototype,
                               back_node |-> "node_prototype_save"])),
                   Opt("n", Goto("node_spawn")),
                   Opt("_default", Goto("node_spawn"))>>)
    ELSE Pair(s, <<Opt("_default", Goto("node_spawn"))>>)

\* the yes / no / default options of the save prompt
save_prompt(prototype) ==
    <<Opt("yes", GotoKw("node_prototype_save",
                        [accept |-> TRUE, prototype |-> prototype])),
      Opt("n", Goto("node_spawn")),
      Opt("_default", GotoKw("node_prototype_save",
                             [accept |-> TRUE, prototype |-> prototype]))>>

\* node_prototype_save from the verdict v on (lines 1245-1282)
save_validated(v, prototype) ==
    IF v.err
    THEN Pair(v.s, _wizard_options("prototype_save", "prototype_locks", "index"))
    ELSE IF "prototype_key" \notin DOMAIN prototype
    THEN Raises(v.s, "KeyError")
    ELSE IF search_prototype(v.s, KeyOf(prototype)) = <<>>
            /\ FormatRaises({"name"}, 0, 1, {})
    THEN Raises(v.s, "KeyError")
    ELSE Pair(v.s, save_prompt(prototype))

node_prototype_save(s, kwargs) ==
    IF KwGet(kwargs, "accept_save", FALSE)
       /\ "prototype" \in DOMAIN kwargs /\ kwargs["prototype"] # EmptyDict
    THEN save_done(save_prototype(s, kwargs["prototype"]), kwargs["prototype"],
                   search_objects_with_prototype(s, KeyOf(kwargs["prototype"])))
    ELSE save_validated(_validate_prototype(_get_menu_prototype(s),
                                            _get_menu_prototype(s).proto),
                        _get_menu_prototype(s).proto)

\* the options of the spawn submenu (lines 1319-1349); the template's
\* location, a text, is never the caller's location or the caller
spawn_options(prototype, spawned_objects) ==
    (IF "location" \in DOMAIN prototype /\ Truthy(prototype["location"])
     THEN <<Opt("spawn in prototype's location",
                Call("_spawn", [prototype |-> prototype]))>>
     ELSE <<>>)
    \o <<Opt("spawn in caller's location",
             Call("_spawn", [prototype |-> prototype,
                             location |-> CallerLocation])),
         Opt("spawn in caller's inventory",
             Call("_spawn", [prototype |-> prototype, location |-> "caller"]))>>
    \o (IF spawned_objects # <<>>
        THEN <<Opt("update existing",
                   GotoKw("node_update_objects",
                          [prototype |-> prototype, opjects |-> spawned_objects,
                           back_node |-> "node_prototype_spawn"]))>>
        ELSE <<>>)
    \o _wizard_options("prototype_spawn", "prototype_save", "index")

\* a plausible slip: the spawn options are offered whatever the verdict
spawn_validated_unchecked(v, prototype) ==
    IF "prototype_key" \notin DOMAIN prototype
    THEN Raises(v.s, "KeyError")
    ELSE Pair(v.s, spawn_options(prototype,
                                 search_objects_with_prototype(v.s, KeyOf(prototype))))

\* node_prototype_spawn from the verdict v on (lines 1311-1360)
spawn_validated(v, prototype) ==
    IF v.err
    THEN Pair(v.s, _wizard_options("prototype_spawn", "prototype_locks", "index"))
    ELSE IF "prototype_key" \notin DOMAIN prototype
    THEN Raises(v.s, "KeyError")
    ELSE Pair(v.s, spawn_options(prototype,
                                 search_objects_with_prototype(v.s, KeyOf(prototype))))

node_prototype_spawn(s, kwargs) ==
    spawn_validated(_validate_prototype(_get_menu_prototype(s),
                                        _get_menu_prototype(s).proto),
                    _get_menu_prototype(s).proto)

node_prototype_load(s, kwargs) ==
    Pair(s, _wizard_options("prototype_load", "prototype_save", "index")
            \o <<Opt("_default", Call("_prototype_parent_examine", NoKwargs))>>)

----------------------------------------------------------------------------
(* The menu engine: node lookup, the list wrapper and one user turn *)

\* the keys of menudata in start_olc
menudata ==
    {"node_index", "node_validate_prototype", "node_prototype_key",
     "node_prototype_parent", "node_typeclass", "node_key", "node_aliases",
     "node_attrs", "node_tags", "node_locks", "node_permissions",
     "node_location", "node_home", "node_destination", "node_update_objects",
     "node_prototype_desc", "node_prototype_tags", "node_prototype_locks",
     "node_prototype_load", "node_prototype_save", "node_prototype_spawn"}

\* the node functions declared with **kwargs
AcceptsKwargs ==
    {"node_validate_prototype", "node_update_objects", "node_prototype_save",
     "node_prototype_spawn", "node_prototype_load"}

\* evmenu.list_node: one option per listed item, then the wrapped node's own
list_node(items, select, res) ==
    IF res.ret # "pair" THEN res
    ELSE Pair(res.s,
              [i \in 1..Len(items) |->
                  Opt("item", Call(select, [selection |-> items[i]]))]
              \o res.options)

\* the function menudata registers under the name, applied
RunNode(name, s, kwargs, pick) ==
    CASE name = "node_index" -> node_index(s)
      [] name = "node_validate_prototype" -> node_validate_prototype(s, kwargs)
      [] name = "node_prototype_key" -> node_prototype_key(s)
      [] name = "node_prototype_parent" ->
            list_node(_all_prototype_parents(s), "_prototype_parent_select",
                      node_prototype_parent(s))
      [] name = "node_typeclass" ->
            list_node(_all_typeclasses(s), "_typeclass_select", node_typeclass(s))
      [] name = "node_key" -> node_key(s)
      [] name = "node_aliases" -> node_aliases(s)
      [] name = "node_attrs" -> list_node(_caller_attrs(s), None, node_attrs(s))
      [] name = "node_tags" -> list_node(_caller_tags(s), None, node_tags(s))
      [] name = "node_locks" -> node_locks(s)
      [] name = "node_permissions" -> node_permissions(s)
      [] name = "node_location" -> node_location(s)
      [] name = "node_home" -> node_home(s)
      [] name = "node_destination" -> node_destination(s)
      [] name = "node_update_objects" -> node_update_objects(s, kwargs, pick)
      [] name = "node_prototype_desc" -> node_prototype_desc(s)
      [] name = "node_prototype_tags" -> node_prototype_tags(s)
      [] name = "node_prototype_locks" -> node_prototype_locks(s)
      [] name = "node_prototype_load" ->
            list_node(_all_prototype_parents(s), "_prototype_load_select",
                      node_prototype_load(s, kwargs))
      [] name = "node_prototype_save" -> node_prototype_save(s, kwargs)
      [] name = "node_prototype_spawn" -> node_prototype_spawn(s, kwargs)

\* the goto callable of an option, applied to the input
CallGoto(fn, s, raw, kwargs, spawned) ==
    CASE fn = "_set_property" ->
            LET r == _set_property(s, raw, kwargs) IN Ret(r.s, r.ret, kwargs)
      [] fn = "_check_prototype_key" -> _check_prototype_key(s, raw)
      [] fn = "_prototype_parent_examine" -> _prototype_parent_examine(s, raw)
      [] fn = "_prototype_parent_select" ->
            _prototype_parent_select(s, kwargs["selection"])
      [] fn = "_typeclass_examine" -> _typeclass_examine(s, raw)
      [] fn = "_typeclass_select" -> _typeclass_select(s, kwargs["selection"])
      [] fn = "_prototype_load_select" ->
            _prototype_load_select(s, kwargs["selection"])
      [] fn = "_spawn" -> _spawn(s, kwargs, spawned)
      [] fn = "_keep_diff" -> _keep_diff(s, kwargs)
      [] fn = "_update_spawned" -> _update_spawned(s, kwargs)
      [] fn = None -> Ret(s, None, kwargs)

\* The session as the helpers see it, at the start of a turn
Session ==
    [proto |-> olc_prototype, new |-> olc_new, msgs |-> <<>>,
     registry |-> registry, objects |-> objects, calls |-> <<>>,
     validated |-> validated]

\* what a turn leaves when the menu stays on the active node
Stays(called, ran, outcome, exc, s) ==
    [s |-> s, node |-> node, node_kwargs |-> node_kwargs, options |-> options,
     goto_ret |-> called.ret, ran |-> ran, outcome |-> outcome, exc |-> exc]

\* the target node was run and gave res
Entered(called, target, res) ==
    IF res.ret = "pair"
    THEN [s |-> res.s, node |-> target,
          node_kwargs |-> IF target \in AcceptsKwargs THEN called.kwargs
                          ELSE NoKwargs,
          options |-> res.options, goto_ret |-> called.ret, ran |-> target,
          outcome |-> "pair", exc |-> ""]
    ELSE Stays(called, target, res.ret, res.exc, res.s)

\* the goto gave the node name target
Resolved(called, target, pick) ==
    IF target \notin menudata
    THEN Stays(called, "", "unresolved", "", called.s)
    ELSE Entered(called, target, RunNode(target, called.s, called.kwargs, pick))

\* the goto was evaluated: None means the active node again
Evaluated(called, pick) ==
    Resolved(called, IF called.ret = None THEN node ELSE called.ret, pick)

\* One turn: the option's goto is resolved (a callable is called first; None
\* means the active node again), the target node is run, and the menu moves
\* there if it returned a pair.  A target that is no node of menudata, a
\* node that raises and a node that returns nothing are reported by the
\* engine and leave the menu on the active node.
Turn(i, raw, env) ==
    Evaluated(IF options[i].goto.fn = ""
              THEN Ret(Session, options[i].goto.node, options[i].goto.kwargs)
              ELSE CallGoto(options[i].goto.fn, Session, raw,
                            options[i].goto.kwargs, env.spawned),
              env.pick)

\* the last two entries of the trail with one more
Trail(entry) ==
    IF Len(trail) < 2 THEN Append(trail, entry) ELSE <<trail[2], entry>>

\* turn r put a saved prototype in place of the template: a load at the load
\* node, or a reload by its key at the prototype-key node
Replaces(fn, r) ==
    \/ fn = "_prototype_load_select" /\ r.goto_ret = "node_index"
    \/ fn = "_check_prototype_key" /\ r.goto_ret = "node_index"

\* the state after turn r of option i with input raw; after MaxMuts changes
\* the template may still be replaced by a saved one, once
Apply(i, raw, r) ==
    LET changed == r.s.proto # olc_prototype \/ r.s.objects # objects
                   \/ r.s.registry # registry
        same == r.s.proto = olc_prototype
    IN /\ changed =>
              (muts < MaxMuts \/ (muts = MaxMuts /\ Replaces(options[i].goto.fn, r)))
       /\ Len(r.s.objects) <= MaxObjects
       /\ node' = r.node
       /\ node_kwargs' = r.node_kwargs
       /\ options' = r.options
       /\ olc_prototype' = r.s.proto
       /\ olc_new' = r.s.new
       /\ msgs' = r.s.msgs
       /\ registry' = r.s.registry
       /\ objects' = r.s.objects
       /\ calls' = r.s.calls
       /\ validated' = r.s.validated
       /\ muts' = IF changed THEN muts + 1 ELSE muts
       /\ last' = [option |-> options[i].key, raw |-> raw, from |-> node,
                   fn |-> options[i].goto.fn,
                   next_node |-> KwGet(options[i].goto.kwargs, "next_node", ""),
                   goto_ret |-> r.goto_ret, ran |-> r.ran,
                   outcome |-> r.outcome, exc |-> r.exc, same |-> same]
       /\ trail' = IF options[i].key \in {"back", "forward", "validate"}
                   THEN Trail([from |-> node, option |-> options[i].key,
                               same |-> same, outcome |-> r.outcome])
                   ELSE <<>>
       /\ UNCHANGED h

\* what the spawner and random.choice may answer during the turn of option i:
\* whether spawn gives an object, and the index of the object drawn
Envs(i) ==
    [spawned : IF options[i].goto.fn = "_spawn" THEN BOOLEAN ELSE {TRUE},
     pick : 1..Len(objects)]

\* the raw inputs typed in a wizard session
WizardInputs ==
    {<<>>, <<"a">>, <<" ", "A">>, <<"1">>, <<"a", ",", "[">>}

\* the user picks one of the options shown by its key or number
ChooseOption ==
    \E i \in 1..Len(options) : \E env \in Envs(i) :
        /\ h.phase = "wizard"
        /\ options[i].key \notin {"_default", "item"}
        /\ Apply(i, <<>>, Turn(i, <<>>, env))

\* the user types text that matches no option: the _default option gets it
EnterText ==
    \E i \in 1..Len(options), raw \in WizardInputs : \E env \in Envs(i) :
        /\ h.phase = "wizard"
        /\ options[i].key = "_default"
        /\ Apply(i, raw, Turn(i, raw, env))

\* the user picks an item of the list a list node shows
SelectItem ==
    \E i \in 1..Len(options) : \E env \in Envs(i) :
        /\ h.phase = "wizard"
        /\ options[i].key = "item"
        /\ Apply(i, <<>>, Turn(i, <<>>, env))

\* start_olc(caller, prototype=given): the menu tree gets olc_prototype and
\* runs the start node, node_index
StartOlc(given) ==
    LET s0 == [proto |-> given, new |-> "unset", msgs |-> <<>>,
               registry |-> RegistryInit,
               objects |-> <<[prototype_key |-> <<"a">>, snapshot |-> ProtoA,
                              live |-> ProtoA]>>,
               calls |-> <<>>,
               validated |-> [done |-> FALSE, prototype |-> EmptyDict,
                              raised |-> "ok", err |-> FALSE]]
        res == RunNode("node_index", s0, NoKwargs, 1)
    IN /\ node = "node_index"
       /\ node_kwargs = NoKwargs
       /\ options = res.options
       /\ olc_prototype = res.s.proto
       /\ olc_new = res.s.new
       /\ msgs = res.s.msgs
       /\ registry = res.s.registry
       /\ objects = res.s.objects
       /\ calls = res.s.calls
       /\ validated = res.s.validated
       /\ muts = 0
       /\ last = [option |-> "start", raw |-> <<>>, from |-> "", fn |-> "",
                  next_node |-> "", goto_ret |-> "node_index",
                  ran |-> "node_index", outcome |-> res.ret, exc |-> res.exc,
                  same |-> TRUE]
       /\ trail = <<>>

Init ==
    /\ \E given \in {EmptyDict, ProtoA, Proto1} : StartOlc(given)
    /\ h = [phase |-> "wizard"]

Next == ChooseOption \/ EnterText \/ SelectItem

Spec == Init /\ [][Next]_vars

----------------------------------------------------------------------------
(* _set_property on its own: called once with any input and any of the     *)
(* keyword arguments a caller may pass, then again with the same ones.     *)

\* the processors of the field nodes, and int
Processors ==
    {"strip", "split_strip", "split_strip_lower_str", "strip_lower", "str", "int"}

\* the keyword arguments of the calls
PropertyKwargs ==
    {[prop |-> p, processor |-> pr, next_node |-> "node_aliases"] :
        p \in {"key", "aliases", "prototype_key"}, pr \in Processors}
    \cup {[prop |-> "key", processor |-> pr, next_node |-> "node_aliases",
           test_parse |-> FALSE] : pr \in Processors}
    \cup {NoKwargs}

\* the session after the call that gave r
Called(r) ==
    /\ olc_prototype' = r.s.proto
    /\ olc_new' = r.s.new
    /\ msgs' = r.s.msgs
    /\ UNCHANGED <<node, node_kwargs, options, registry, objects, calls,
                   validated, last, trail, muts>>

\* the first call, r its result
FirstCall(raw, kwargs, r) ==
    /\ Called(r)
    /\ h' = [phase |-> "once", raw |-> raw, kwargs |-> kwargs,
             raised |-> Processed(raw, kwargs).raised,
             before |-> olc_prototype, once |-> r.s.proto,
             once_ret |-> r.ret, ret |-> r.ret]

\* the same call again, r its result
SecondCall(r) ==
    /\ Called(r)
    /\ h' = [h EXCEPT !.phase = "twice", !.ret = r.ret]

SetPropertyOnce ==
    \E raw \in Texts(MaxLen), kwargs \in PropertyKwargs :
        /\ h.phase = "idle"
        /\ FirstCall(raw, kwargs, _set_property(Session, raw, kwargs))

SetPropertyAgain ==
    /\ h.phase = "once"
    /\ SecondCall(_set_property(Session, h.raw, h.kwargs))

InitSetProperty ==
    /\ \E given \in {EmptyDict, ProtoA, Proto1} : StartOlc(given)
    /\ h = [phase |-> "idle"]

NextSetProperty == SetPropertyOnce \/ SetPropertyAgain

SpecSetProperty == InitSetProperty /\ [][NextSetProperty]_vars

----------------------------------------------------------------------------
(* The update and save callables on their own: node_update_objects entered *)
(* with a template and its objects, then _keep_diff, _update_spawned and   *)
(* the reset target applied to the kwargs the node's options carry (lines  *)
(* 1130-1187); and node_prototype_save entered with an accepted save.      *)

\* a template whose key was edited since its objects were spawned
TemplateEdited == DictSet(ProtoA, "key", Str(<<"A">>))

\* the prototype an object was spawned from, before that edit
SnapshotOld == DictSet(ProtoA, "key", Str(<<"a">>))

\* objects of the template: untouched since the spawn, edited by hand since,
\* spawned with a field the template no longer has, and up to date
UpdateObjects ==
    {[prototype_key |-> <<"a">>, snapshot |-> SnapshotOld, live |-> SnapshotOld],
     [prototype_key |-> <<"a">>, snapshot |-> SnapshotOld,
      live |-> DictSet(ProtoA, "key", Str(<<"1">>))],
     [prototype_key |-> <<"a">>,
      snapshot |-> DictSet(SnapshotOld, "aliases", List(<<<<"a">>>>)),
      live |-> DictSet(SnapshotOld, "aliases", List(<<<<"a">>>>))],
     [prototype_key |-> <<"a">>, snapshot |-> TemplateEdited,
      live |-> TemplateEdited]}

\* the non-empty query sets of at most MaxObjects objects
ObjectLists ==
    UNION {[1..n -> UpdateObjects] : n \in 1..MaxObjects}

\* the session after a call that left s
SessionIs(s) ==
    /\ olc_prototype' = s.proto
    /\ olc_new' = s.new
    /\ msgs' = s.msgs
    /\ registry' = s.registry
    /\ objects' = s.objects
    /\ calls' = s.calls
    /\ validated' = s.validated
    /\ UNCHANGED <<node, node_kwargs, options, last, trail, muts>>

\* node_update_objects gave res; computed is the diff of line 1154
Entering(prototype, objs, back_node, obj, res, computed) ==
    /\ SessionIs(res.s)
    /\ h' = [phase |-> "shown", op |-> "enter", key |-> "",
             prototype |-> prototype, objects |-> objs, back_node |-> back_node,
             obj |-> obj, obj_prototype |-> computed.obj_prototype,
             diff |-> computed.diff,
             prev |-> [diff |-> computed.diff, prototype |-> prototype,
                       objects |-> objs],
             outcome |-> res.ret, exc |-> res.exc, options |-> res.options,
             ret |-> None, rerun |-> [ret |-> "", exc |-> "", options |-> <<>>]]

EnterUpdateObjects ==
    \E prototype \in {TemplateEdited, ProtoA}, objs \in ObjectLists,
       back_node \in {"node_index", "node_prototype_save"}, pick \in 1..MaxObjects :
        /\ h.phase = "start"
        /\ pick <= Len(objs)
        /\ Entering(prototype, objs, back_node, Choice(objs, pick),
                    node_update_objects(Session,
                                        [prototype |-> prototype, objects |-> objs,
                                         back_node |-> back_node], pick),
                    prototype_diff_from_object(Session, prototype,
                                               Choice(objs, pick)))

\* what the node gave when it was run again
Rerun(res) == [ret |-> res.ret, exc |-> res.exc, options |-> res.options]

\* _keep_diff gave r for the field key; it returns None, so the engine runs
\* node_update_objects again with the kwargs of the option
Keeping(key, r) ==
    /\ SessionIs(r.s)
    /\ h' = [h EXCEPT !.op = "keep", !.key = key, !.ret = r.ret,
                      !.rerun = Rerun(node_update_objects(r.s, r.kwargs, 1)),
                      !.prev = [diff |-> h.diff, prototype |-> h.prototype,
                                objects |-> h.objects],
                      !.diff = r.kwargs["diff"],
                      !.prototype = r.kwargs["prototype"],
                      !.objects = r.kwargs["objects"]]

KeepDiff ==
    /\ h.phase = "shown"
    /\ \E key \in DOMAIN h.diff :
          Keeping(key,
                  _keep_diff(Session,
                             _keep_option(key, h.prototype, h.obj, h.obj_prototype,
                                          h.diff, h.objects,
                                          h.back_node).goto.kwargs))

\* _update_spawned gave r
Updating(r) ==
    /\ SessionIs(r.s)
    /\ h' = [h EXCEPT !.phase = "done", !.op = "update", !.ret = r.ret]

UpdateSpawned ==
    /\ h.phase = "shown"
    /\ Updating(_update_spawned(
                    Session,
                    update_options(h.prototype, h.diff, h.objects,
                                   h.back_node)[1].goto.kwargs))

\* the reset target gave res; the options on display, and the diff they
\* share, are replaced only if the node returned new ones
Resetting(obj, res, computed) ==
    /\ SessionIs(res.s)
    /\ h' = [h EXCEPT !.op = "reset", !.outcome = res.ret, !.exc = res.exc,
                      !.prev = [diff |-> h.diff, prototype |-> h.prototype,
                                objects |-> h.objects],
                      !.options = IF res.ret = "pair" THEN res.options ELSE @,
                      !.obj = IF res.ret = "pair" THEN obj ELSE @,
                      !.obj_prototype = IF res.ret = "pair"
                                        THEN computed.obj_prototype ELSE @,
                      !.diff = IF res.ret = "pair" THEN computed.diff ELSE @]

ResetChanges ==
    /\ h.phase = "shown"
    /\ \E pick \in 1..Len(h.objects) :
          Resetting(Choice(h.objects, pick),
                    node_update_objects(
                        Session,
                        update_options(h.prototype, h.diff, h.objects,
                                       h.back_node)[2].goto.kwargs, pick),
                    prototype_diff_from_object(Session, h.prototype,
                                               Choice(h.objects, pick)))

\* node_prototype_save with an accepted save gave res
Saving(prototype, res) ==
    /\ SessionIs(res.s)
    /\ h' = [phase |-> "saved", op |-> "save", prototype |-> prototype,
             outcome |-> res.ret, exc |-> res.exc, options |-> res.options]

CommitSave ==
    \E prototype \in {ProtoA, TemplateEdited, Proto1} :
        /\ h.phase = "start"
        /\ Saving(prototype,
                  node_prototype_save(Session, [accept_save |-> TRUE,
                                                prototype |-> prototype]))

InitUpdate ==
    /\ \E given \in {EmptyDict, ProtoA} : StartOlc(given)
    /\ h = [phase |-> "start", op |-> "none"]

NextUpdate ==
    EnterUpdateObjects \/ KeepDiff \/ UpdateSpawned \/ ResetChanges \/ CommitSave

SpecUpdate == InitUpdate /\ [][NextUpdate]_vars

----------------------------------------------------------------------------
(* The attribute and tag callables on their own (lines 635-690, 755-816):  *)
(* _add_attr, _edit_attr, _add_tag and _edit_tag applied to a template     *)
(* whose attrs and tags are lists of tuples.  A tuple is a sequence of     *)
(* values, its absent category the value NoneValue.                        *)

NoneValue == [kind |-> "NoneType", items |-> <<>>]

\* sep in t
Contains(t, sep) == \E i \in 1..Len(t) : t[i] = sep

RECURSIVE split_max_acc(_, _, _, _)
split_max_acc(t, sep, maxsplit, cur) ==
    IF t = <<>> THEN <<cur>>
    ELSE IF Head(t) = sep /\ maxsplit > 0
    THEN <<cur>> \o split_max_acc(Tail(t), sep, maxsplit - 1, <<>>)
    ELSE split_max_acc(Tail(t), sep, maxsplit, Append(cur, Head(t)))

\* str.split(sep, maxsplit)
split_max(t, sep, maxsplit) == split_max_acc(t, sep, maxsplit, <<>>)

\* [tup[0] for tup in tuples].index(name): the first position holding name
index(tuples, name) ==
    CHOOSE i \in 1..Len(tuples) :
        /\ tuples[i][1] = Str(name)
        /\ \A j \in 1..(i - 1) : tuples[j][1] # Str(name)

\* whether that .index(name) finds the name
Named(tuples, name) == \E i \in 1..Len(tuples) : tuples[i][1] = Str(name)

\* (attrname, value) of line 649
attr_sides(attr_string) == strip_each(split_max(attr_string, "=", 1))

\* nameparts of lines 650-651: the name side is lower-cased as a whole,
\* then split
attr_nameparts(attr_string) ==
    split_max(lower(attr_sides(attr_string)[1]), ";", 2)

\* attr_tuple of lines 652-657 from the name parts and the value
attr_tuple_of(nameparts, value) ==
    <<Str(nameparts[1]), Str(value),
      IF Len(nameparts) >= 2 THEN Str(nameparts[2]) ELSE NoneValue,
      Str(IF Len(nameparts) > 2 THEN nameparts[3] ELSE <<>>)>>

\* a plausible slip: the entry is always appended
attrs_with_appended(attrs, tup) == Append(attrs, tup)

\* lines 663-668: the entry replaces the one of its name, or is appended
attrs_with(attrs, tup) ==
    IF Named(attrs, tup[1].items[1])
    THEN [attrs EXCEPT ![index(attrs, tup[1].items[1])] = tup]
    ELSE Append(attrs, tup)

\* the text of lines 672-677 and 801-806
ListText(kwargs, tup) ==
    IF KwGet(kwargs, "text", <<>>) # <<>>
    THEN [msg |-> "given", tuple |-> tup]
    ELSE IF "edit" \in DOMAIN kwargs
    THEN [msg |-> "Edited", tuple |-> tup]
    ELSE [msg |-> "Added", tuple |-> tup]

\* what a callable of the two lists gave: the session, whether it raised,
\* and the text of the (text, options) pair it returned
ListResult(s, raised, exc, text) ==
    [s |-> s, raised |-> raised, exc |-> exc, text |-> text]

\* lines 659-683 for the attr_tuple built
add_attr_tuple(s, tup, kwargs) ==
    IF tup[1].items[1] # <<>>
    THEN ListResult(
             _set_prototype_value(
                 s, "attrs",
                 List(attrs_with(ListField(_get_menu_prototype(s).proto, "attrs"),
                                 tup))),
             FALSE, None, ListText(kwargs, tup))
    ELSE ListResult(s, FALSE, None, [msg |-> "usage", tuple |-> <<>>])

\* without "=" the name value is never bound, and line 657 reads it
_add_attr(s, attr_string, kwargs) ==
    IF Contains(attr_string, "=")
    THEN add_attr_tuple(s, attr_tuple_of(attr_nameparts(attr_string),
                                         attr_sides(attr_string)[2]),
                        kwargs)
    ELSE ListResult(s, TRUE, "UnboundLocalError", [msg |-> "none", tuple |-> <<>>])

_edit_attr(s, attrname, new_value) ==
    _add_attr(s, attrname \o <<"=">> \o new_value, [edit |-> TRUE])

\* tag_tuple of lines 768-776 from the parts of the tag
tag_tuple_of(tagtuple) ==
    <<Str(tagtuple[1]),
      IF Len(tagtuple) >= 2 THEN Str(tagtuple[2]) ELSE NoneValue,
      Str(IF Len(tagtuple) > 2 THEN tagtuple[3] ELSE <<>>)>>

\* a plausible slip: the edited tag is put at the end of the list
tags_edited_at_end(tags, old_tag, tup) ==
    SubSeq(tags, 1, index(tags, old_tag) - 1)
    \o SubSeq(tags, index(tags, old_tag) + 1, Len(tags)) \o <<tup>>

\* lines 790-795: del tags[ind], then the new entry at ind
tags_edited(tags, old_tag, tup) ==
    SubSeq(tags, 1, index(tags, old_tag) - 1) \o <<tup>>
    \o SubSeq(tags, index(tags, old_tag) + 1, Len(tags))

\* lines 778-812 for the tag_tuple built; .index raises ValueError for a
\* name not in the list, and the handler catches IndexError only
add_tag_tuple(s, tup, kwargs) ==
    IF tup[1].items[1] = <<>>
    THEN ListResult(s, FALSE, None, [msg |-> "usage", tuple |-> <<>>])
    ELSE IF KwGet(kwargs, "edit", <<>>) = <<>>
    THEN ListResult(
             _set_prototype_value(
                 s, "tags",
                 List(Append(ListField(_get_menu_prototype(s).proto, "tags"),
                             tup))),
             FALSE, None, ListText(kwargs, tup))
    ELSE IF ~Named(ListField(_get_menu_prototype(s).proto, "tags"), kwargs.edit)
    THEN ListResult(_get_menu_prototype(s), TRUE, "ValueError",
                    [msg |-> "none", tuple |-> <<>>])
    ELSE ListResult(
             _set_prototype_value(
                 s, "tags",
                 List(tags_edited(ListField(_get_menu_prototype(s).proto, "tags"),
                                  kwargs.edit, tup))),
             FALSE, None, ListText(kwargs, tup))

_add_tag(s, tag, kwargs) ==
    add_tag_tuple(s, tag_tuple_of(split_max(lower(strip(tag)), ";", 2)), kwargs)

_edit_tag(s, old_tag, new_tag) == _add_tag(s, new_tag, [edit |-> old_tag])

\* a template given with two attributes and two tags
ProtoLists ==
    DictSet(DictSet(ProtoA, "attrs",
                    List(<<<<Str(<<"a">>), Str(<<"1">>), NoneValue, Str(<<>>)>>,
                           <<Str(<<"1">>), Str(<<"A">>), Str(<<"a">>), Str(<<>>)>>>>)),
            "tags",
            List(<<<<Str(<<"a">>), NoneValue, Str(<<>>)>>,
                   <<Str(<<"1">>), Str(<<"a">>), Str(<<>>)>>>>))

\* attribute input: a name or none, with or without category and locks,
\* with or without "=" and a value
AttrStrings ==
    {name \o more \o rest :
        name \in {<<>>, <<"a">>, <<"1">>},
        more \in {<<>>, <<";", "A">>, <<";", "A", ";", "A">>},
        rest \in {<<>>, <<"=", "1">>, <<" ", "=", " ", "A">>}}

\* tag input: a name or none, with or without category and data
TagStrings ==
    {<<>>, <<"a">>, <<" ", "A", " ">>, <<"1", ";", "A">>,
     <<"a", ";", "A", ";", "1">>, <<";", "a">>}

\* a callable was applied to args and gave r
ListCalled(op, args, r) ==
    /\ SessionIs(r.s)
    /\ h' = [phase |-> "lists", op |-> op, n |-> h.n + 1, args |-> args,
             prev |-> olc_prototype, raised |-> r.raised, exc |-> r.exc,
             text |-> r.text]

AddAttr ==
    \E attr_string \in AttrStrings :
        /\ h.n < MaxCalls
        /\ ListCalled("add_attr", <<attr_string>>,
                      _add_attr(Session, attr_string, NoKwargs))

EditAttr ==
    \E attrname \in {<<"a">>, <<"1">>}, new_value \in {<<"1">>, <<"A">>} :
        /\ h.n < MaxCalls
        /\ ListCalled("edit_attr", <<attrname, new_value>>,
                      _edit_attr(Session, attrname, new_value))

AddTag ==
    \E tag \in TagStrings :
        /\ h.n < MaxCalls
        /\ ListCalled("add_tag", <<tag>>, _add_tag(Session, tag, NoKwargs))

EditTag ==
    \E old_tag \in {<<"a">>, <<"1">>}, new_tag \in TagStrings :
        /\ h.n < MaxCalls
        /\ ListCalled("edit_tag", <<old_tag, new_tag>>,
                      _edit_tag(Session, old_tag, new_tag))

InitLists ==
    /\ \E given \in {EmptyDict, ProtoA, ProtoLists} : StartOlc(given)
    /\ h = [phase |-> "lists", op |-> "none", n |-> 0]

NextLists == AddAttr \/ EditAttr \/ AddTag \/ EditTag

SpecLists == InitLists /\ [][NextLists]_vars

----------------------------------------------------------------------------
(* The field handlers on their own: the _default option each free-text     *)
(* field node declares, _check_prototype_key and _prototype_load_select    *)
(* applied to a template, and _get_current_value reading it through the    *)
(* olc_flat_prototype attribute of the menu tree (lines 45-53, 244-254).   *)

\* the fields whose node declares a _default option calling _set_property
FieldNames ==
    {"key", "aliases", "locks", "permissions", "location", "home",
     "destination", "prototype_desc", "prototype_tags", "prototype_locks"}

\* the kwargs of the _default option that node_<field> declares
field_default(field) ==
    CASE field = "key" ->
            [prop |-> "key", processor |-> "strip", next_node |-> "node_aliases"]
      [] field = "aliases" ->
            [prop |-> "aliases", processor |-> "split_strip",
             next_node |-> "node_attrs"]
      [] field = "locks" ->
            [prop |-> "locks", processor |-> "strip",
             next_node |-> "node_permissions"]
      [] field = "permissions" ->
            [prop |-> "permissions", processor |-> "split_strip",
             next_node |-> "node_location"]
      [] field = "location" ->
            [prop |-> "location", processor |-> "strip", next_node |-> "node_home"]
      [] field = "home" ->
            [prop |-> "home", processor |-> "strip",
             next_node |-> "node_destination"]
      [] field = "destination" ->
            [prop |-> "dest", processor |-> "strip",
             next_node |-> "node_prototype_desc"]
      [] field = "prototype_desc" ->
            [prop |-> "prototype_desc", processor |-> "strip",
             next_node |-> "node_prototype_tags"]
      [] field = "prototype_tags" ->
            [prop |-> "prototype_tags", processor |-> "split_strip_lower_str",
             next_node |-> "node_prototype_locks"]
      [] field = "prototype_locks" ->
            [prop |-> "prototype_locks", processor |-> "strip_lower",
             next_node |-> "node_index"]

\* the menu tree without the olc_flat_prototype attribute
NoFlat == [set |-> FALSE, value |-> EmptyDict]

\* spawner.flatten_prototype of the template of session s
Flat(s) == flatten_prototype(s, s.proto, Cardinality(DOMAIN s.registry))

\* _get_flat_menu_prototype(caller) with cached the olc_flat_prototype
\* attribute: a cached dict that is not empty is returned as it is
_get_flat_menu_prototype(s, cached) ==
    IF cached.set /\ cached.value # EmptyDict
    THEN [s |-> s, cached |-> cached, flat |-> cached.value]
    ELSE [s |-> _get_menu_prototype(s),
          cached |-> [set |-> TRUE, value |-> Flat(_get_menu_prototype(s))],
          flat |-> Flat(_get_menu_prototype(s))]

\* what _get_current_value reports once the flattened prototype r is at hand
current_value_of_flat(r, keyname) ==
    [s |-> r.s, cached |-> r.cached, called |-> TRUE, flat |-> r.flat,
     report |-> IF keyname \in DOMAIN r.flat THEN "inherited" ELSE "none"]

\* _get_current_value(caller, keyname) with the attribute: the flattened
\* prototype is asked for when the template itself lacks the key
current_value(s, cached, keyname) ==
    IF keyname \in DOMAIN _get_menu_prototype(s).proto
    THEN [s |-> _get_menu_prototype(s), cached |-> cached, called |-> FALSE,
          flat |-> EmptyDict, report |-> "current"]
    ELSE current_value_of_flat(_get_flat_menu_prototype(s, cached), keyname)

\* the inputs typed at a field node
FieldInputs == {<<>>, <<"a">>, <<" ", "A">>, <<"a", ",", "1">>}

\* a handler was applied to raw for field and returned ret, leaving s
FieldCalled(op, field, raw, s, ret) ==
    /\ SessionIs(s)
    /\ h' = [h EXCEPT !.op = op, !.n = h.n + 1, !.field = field, !.raw = raw,
                      !.prev = olc_prototype, !.ret = ret, !.called = FALSE]

\* _get_current_value gave r
Shown(keyname, r) ==
    /\ SessionIs(r.s)
    /\ h' = [h EXCEPT !.op = "show", !.n = h.n + 1, !.field = keyname,
                      !.raw = <<>>, !.prev = olc_prototype, !.ret = r.report,
                      !.cached = r.cached, !.called = r.called, !.flat = r.flat]

\* the _default option of node_<field> receives raw
AcceptInput ==
    \E field \in FieldNames, raw \in FieldInputs :
        /\ h.n < MaxFieldCalls
        /\ FieldCalled("accept", field, raw,
                       _set_property(Session, raw, field_default(field)).s,
                       _set_property(Session, raw, field_default(field)).ret)

\* the _default option of node_prototype_key receives raw
AcceptKey ==
    \E raw \in FieldInputs \cup {<<"1">>} :
        /\ h.n < MaxFieldCalls
        /\ FieldCalled("accept_key", "prototype_key", raw,
                       _check_prototype_key(Session, raw).s,
                       _check_prototype_key(Session, raw).ret)

\* a prototype listed at the load node is selected
LoadSelect ==
    \E prototype_key \in DOMAIN registry :
        /\ h.n < MaxFieldCalls
        /\ FieldCalled("load", "prototype_key", prototype_key,
                       _prototype_load_select(Session, prototype_key).s,
                       _prototype_load_select(Session, prototype_key).ret)

\* a node asks for the current value of its field
ShowCurrent ==
    \E keyname \in FieldNames \cup {"prototype_key", "typeclass"} :
        /\ h.n < MaxFieldCalls
        /\ Shown(keyname, current_value(Session, h.cached, keyname))

InitFields ==
    /\ \E given \in {EmptyDict, ProtoA, Proto1} : StartOlc(given)
    /\ h = [phase |-> "fields", op |-> "none", n |-> 0, field |-> "",
            raw |-> <<>>, prev |-> EmptyDict, ret |-> "", cached |-> NoFlat,
            called |-> FALSE, flat |-> EmptyDict]

NextFields == AcceptInput \/ AcceptKey \/ LoadSelect \/ ShowCurrent

SpecFields == InitFields /\ [][NextFields]_vars

----------------------------------------------------------------------------
(* Properties *)

\* the nodes built with _wizard_options around a field of the template
WizardNodes ==
    {"node_prototype_key", "node_prototype_parent", "node_typeclass",
     "node_key", "node_aliases", "node_attrs", "node_tags", "node_locks",
     "node_permissions", "node_location", "node_home", "node_destination",
     "node_prototype_desc", "node_prototype_tags", "node_prototype_locks"}

\* the keys of the options on display
OptionKeys == {options[i].key : i \in 1..Len(options)}

\* C1: every node that is run returns a (content, options) pair: it neither
\* raises nor returns nothing.
C1_NodesReturnPairs ==
    last.ran # "" => last.outcome = "pair"

\* C1: a node that was entered and gave its pair
C1_Witness ==
    last.ran = "node_key" /\ last.outcome = "pair"

\* C2: every static goto target on display and every value a goto callable
\* returned is None or the name of a node in menudata.
C2_TargetsResolvable ==
    /\ \A i \in 1..Len(options) :
          options[i].goto.fn = "" => options[i].goto.node \in menudata \cup {None}
    /\ last.goto_ret \in menudata \cup {None}

\* C3: when the processor raises, the template is as before, the failure
\* message is sent and the call returns None.
C3_ProcessorFailure ==
    (h.phase = "once" /\ h.raised)
        => /\ olc_prototype = h.before
           /\ msgs = <<"could_not_set">>
           /\ h.ret = None

\* C3: a call whose processor raised, on a template that has entries
C3_Witness ==
    h.phase = "once" /\ h.raised /\ h.before # EmptyDict

\* C4: empty input handed to _set_property by a field node leaves the template
\* as it was and sends the menu to the node's next_node.
C4_EmptyInputSkips ==
    (last.fn = "_set_property" /\ last.raw = <<>>)
        => last.same /\ last.goto_ret = last.next_node

\* C4: empty input at a field whose processor gives a text
C4_Witness ==
    last.fn = "_set_property" /\ last.raw = <<>> /\ last.from = "node_key"

\* C5: _set_property called twice with the same accepted input leaves the
\* template and the returned node of the first call.
C5_Idempotent ==
    (h.phase = "twice" /\ ~h.raised)
        => olc_prototype = h.once /\ h.ret = h.once_ret

\* C5: the second call after a first one that wrote a list
C5_Witness ==
    /\ h.phase = "twice" /\ ~h.raised
    /\ h.once # h.before
    /\ KwGet(h.kwargs, "processor", "None") = "split_strip"

\* C6: a call with prop = p leaves every entry of the template other than p
\* as it was, and adds or removes no other key.
C6_OnlyPropChanges ==
    h.phase = "once"
        => \A k \in (DOMAIN olc_prototype \cup DOMAIN h.before)
                    \ {KwGet(h.kwargs, "prop", "prototype_key")} :
              /\ k \in DOMAIN olc_prototype
              /\ k \in DOMAIN h.before
              /\ olc_prototype[k] = h.before[k]

\* C6: a write with a test-parse warning into a template with other entries
C6_Witness ==
    /\ h.phase = "once"
    /\ olc_prototype # h.before
    /\ DOMAIN h.before \ {KwGet(h.kwargs, "prop", "prototype_key")} # {}
    /\ "literal_eval_warning" \in {msgs[i] : i \in 1..Len(msgs)}

\* C7: Back from a field node and then Forward on the node reached, both
\* carried out, give the field node again, with the template as it was.
C7_BackThenForward ==
    (/\ Len(trail) = 2
     /\ trail[1].option = "back" /\ trail[1].from \in WizardNodes
     /\ trail[1].outcome = "pair"
     /\ trail[2].option = "forward" /\ trail[2].outcome = "pair")
        => node = trail[1].from /\ trail[1].same /\ trail[2].same

\* C7: Back and Forward taken from a field node where they return
C7_Witness ==
    /\ Len(trail) = 2
    /\ trail[1].option = "back" /\ trail[1].from = "node_key"
    /\ trail[2].option = "forward" /\ node = "node_key"

\* C8: a field node on display offers Back, Forward, Index to node_index and
\* Validate to node_validate_prototype with the node itself to come back to.
C8_FourNavigationOptions ==
    node \in WizardNodes
        => /\ {"back", "forward"} \subseteq OptionKeys
           /\ \E i \in 1..Len(options) :
                 options[i].key = "index" /\ options[i].goto.node = "node_index"
           /\ \E i \in 1..Len(options) :
                 /\ options[i].key = "validate"
                 /\ options[i].goto.node = "node_validate_prototype"
                 /\ "back" \in DOMAIN options[i].goto.kwargs
                 /\ "node_" \o options[i].goto.kwargs["back"] = node

\* C8: a field node on display with all four
C8_Witness ==
    node = "node_key" /\ {"back", "forward", "index", "validate"} \subseteq OptionKeys

\* C9: Validate and then Back on the validation node gives the node Validate
\* was selected from, with the template as it was.
C9_ValidateThenBack ==
    (/\ Len(trail) = 2
     /\ trail[1].option = "validate" /\ trail[1].outcome = "pair"
     /\ trail[2].option = "back" /\ trail[2].from = "node_validate_prototype")
        => node = trail[1].from /\ trail[1].same /\ trail[2].same

\* C9: the round trip from a field node
C9_Witness ==
    /\ Len(trail) = 2
    /\ trail[1].option = "validate" /\ trail[1].from = "node_aliases"
    /\ trail[2].option = "back" /\ trail[2].from = "node_validate_prototype"
    /\ node = "node_aliases"

\* C10: save_prototype and spawn are called only with the template the last
\* _validate_prototype passed without error, and the save and spawn nodes
\* show only navigation options when the validation reports an error.
C10_GatedByValidation ==
    /\ \A i \in 1..Len(calls) :
          calls[i].op \in {"spawn", "save_prototype"}
             => /\ validated.done /\ ~validated.err
                /\ validated.prototype = olc_prototype
                /\ IF calls[i].op = "spawn"
                   THEN calls[i].template = olc_prototype
                   ELSE calls[i].prototype = olc_prototype
    /\ (node \in {"node_prototype_save", "node_prototype_spawn"} /\ validated.err)
          => OptionKeys \subseteq {"back", "forward", "index", "validate"}

\* C10: an object was spawned from the validated template
C10_Witness ==
    /\ \E i \in 1..Len(calls) : calls[i].op = "spawn"
    /\ validated.done /\ ~validated.err

\* C10: the spawn node showing the errors of a template
C10_WitnessBlocked ==
    node = "node_prototype_spawn" /\ validated.err /\ OptionKeys # {}

\* the save_prototype calls of the last turn made with the template
SavesOfTemplate ==
    {i \in 1..Len(calls) : /\ calls[i].op = "save_prototype"
                           /\ calls[i].prototype = olc_prototype}

\* C11: Yes, or input matching no option, at the save prompt calls
\* save_prototype exactly once with the template before the next prompt.
C11_ConfirmSaves ==
    (/\ last.from = "node_prototype_save"
     /\ last.option \in {"yes", "_default"})
        => Cardinality(SavesOfTemplate) = 1

\* C11: Yes was selected at the save prompt of a validated template
C11_Witness ==
    /\ last.from = "node_prototype_save" /\ last.option = "yes"
    /\ validated.done /\ ~validated.err

\* C12: when validation raises only a warning, the save node offers its
\* confirmation and the spawn node its spawn options.
C12_WarningDoesNotBlock ==
    (validated.done /\ validated.raised = "RuntimeWarning")
        => /\ node = "node_prototype_save" => "yes" \in OptionKeys
           /\ node = "node_prototype_spawn"
                 => "spawn in caller's location" \in OptionKeys

\* C12: the save node shown for a template that validates with a warning
C12_Witness ==
    /\ node = "node_prototype_save"
    /\ validated.done /\ validated.raised = "RuntimeWarning"

\* the bulk updates called during the last step
BulkUpdates ==
    {i \in 1..Len(calls) : calls[i].op = "batch_update_objects_with_prototype"}

\* the keys of the options node_update_objects or node_prototype_save returned
ShownKeys == {h.options[i].key : i \in 1..Len(h.options)}

\* the fields of the diff on display that are not KEEP
Pending == {k \in DOMAIN h.diff : h.diff[k] # "KEEP"}

\* C13: the bulk update is called only by the update option: entering the
\* node, a committed save, a keep-as-is override and a reset do not call it.
C13_UpdateOnlyOnApply ==
    BulkUpdates # {} => h.op = "update"

\* C13: the update option was selected after an override
C13_Witness ==
    h.op = "update" /\ BulkUpdates # {} /\ h.key # ""

\* C14: node_update_objects entered with at least one object returns options
\* that include the update action.
C14_UpdateOffered ==
    (h.op = "enter" /\ h.objects # <<>>)
        => h.outcome = "pair" /\ "update" \in ShownKeys

\* C15: the update option calls the bulk update once, with all the objects
\* and the diff on display, reports the count and returns back_node.
C15_UpdateAppliesAll ==
    h.op = "update"
        => /\ calls = <<[op |-> "batch_update_objects_with_prototype",
                         prototype |-> h.prototype, diff |-> h.diff,
                         objects |-> h.objects]>>
           /\ msgs = <<"objects_updated">>
           /\ h.ret = h.back_node

\* C15: an update of two objects with an override in the diff
C15_Witness ==
    /\ h.op = "update" /\ Len(h.objects) = 2
    /\ h.key # "" /\ h.diff[h.key] = "KEEP"

\* C16: the node offers one keep-as-is option for each diff entry that is
\* not KEEP, and the update, reset and back options once each.
C16_OneKeepPerField ==
    (h.op = "enter" /\ h.objects # <<>>)
        => /\ h.outcome = "pair"
           /\ \A k \in Pending :
                 Cardinality({i \in 1..Len(h.options) :
                                 h.options[i].key = "keep " \o k}) = 1
           /\ \A key \in {"update", "reset", "back"} :
                 Cardinality({i \in 1..Len(h.options) :
                                 h.options[i].key = key}) = 1
           /\ Len(h.options) = Cardinality(Pending) + 3

\* C17: _keep_diff sets the entry of its key to KEEP and leaves the other
\* entries, the template and the objects alone; on a KEEP entry it changes
\* nothing.
C17_KeepOnlyThatField ==
    h.op = "keep"
        => /\ h.diff[h.key] = "KEEP"
           /\ DOMAIN h.diff = DOMAIN h.prev.diff
           /\ \A k \in DOMAIN h.diff \ {h.key} : h.diff[k] = h.prev.diff[k]
           /\ h.prototype = h.prev.prototype
           /\ h.objects = h.prev.objects
           /\ h.ret = None
           /\ h.prev.diff[h.key] = "KEEP" => h.diff = h.prev.diff

\* C17: an override in a diff that has another entry
C17_Witness ==
    /\ h.op = "keep" /\ h.diff # h.prev.diff
    /\ \E k \in DOMAIN h.diff \ {h.key} : h.diff[k] # "KEEP"

\* C17: an override of an entry that is KEEP already
C17_WitnessAgain ==
    h.op = "keep" /\ h.prev.diff[h.key] = "KEEP"

\* C18: reset changes re-enters the node, which shows a freshly computed
\* diff: no earlier override is left in the diff the options carry.
C18_ResetDiscardsOverrides ==
    h.op = "reset"
        => /\ h.outcome = "pair"
           /\ \A k \in DOMAIN h.diff : h.diff[k] # "KEEP"

\* C18: a reset after an override
C18_Witness ==
    h.op = "reset" /\ \E k \in DOMAIN h.prev.diff : h.prev.diff[k] = "KEEP"

\* the objects spawned from the saved template
Instances ==
    SelectSeq(objects, LAMBDA o : /\ "prototype_key" \in DOMAIN h.prototype
                                  /\ o.prototype_key
                                         = h.prototype["prototype_key"].items[1])

C19_WitnessNone ==
    h.op = "save" /\ Instances = <<>> /\ objects # <<>>

\* C20: a field whose template value differs from the sampled object's
\* snapshot is UPDATE if the object's live value is still the snapshot's,
\* REPLACE if the live value has changed too.
C20_UpdateOrReplace ==
    h.op = "enter"
        => \A k \in DOMAIN h.prototype \cap DOMAIN h.obj.snapshot :
              h.prototype[k] # h.obj.snapshot[k]
                 => /\ k \in DOMAIN h.diff
                    /\ h.diff[k] = IF h.obj.live[k] = h.obj.snapshot[k]
                                   THEN "UPDATE" ELSE "REPLACE"

\* C20: a diff with an UPDATE entry
C20_Witness ==
    h.op = "enter" /\ \E k \in DOMAIN h.diff : h.diff[k] = "UPDATE"

\* C20: a diff with a REPLACE entry
C20_WitnessReplace ==
    h.op = "enter" /\ \E k \in DOMAIN h.diff : h.diff[k] = "REPLACE"

\* the attrs and tags of the template before and after the last call
AttrsBefore == ListField(h.prev, "attrs")

AttrsNow == ListField(olc_prototype, "attrs")

TagsBefore == ListField(h.prev, "tags")

TagsNow == ListField(olc_prototype, "tags")

\* the last call stored an entry
Stored == h.op # "none" /\ ~h.raised /\ h.text.msg \in {"Added", "Edited"}

\* the name side of the attribute input, split as it was entered
EnteredParts == split_max(attr_sides(h.args[1])[1], ";", 2)

\* C21: _add_attr stores 'name;category;locks=value' as the entry (name,
\* value, category, locks): the category is absent and the locks are empty
\* when omitted, and the category and the lock text are kept as entered.
C21_ParsesAsEntered ==
    (h.op = "add_attr" /\ Stored) =>
        /\ h.text.tuple \in {AttrsNow[i] : i \in 1..Len(AttrsNow)}
        /\ h.text.tuple[1] = Str(lower(EnteredParts[1]))
        /\ h.text.tuple[2] = Str(attr_sides(h.args[1])[2])
        /\ h.text.tuple[3] = (IF Len(EnteredParts) >= 2
                              THEN Str(EnteredParts[2]) ELSE NoneValue)
        /\ h.text.tuple[4] = Str(IF Len(EnteredParts) > 2
                                 THEN EnteredParts[3] ELSE <<>>)

\* C22: _add_attr with a name already in the attrs list replaces that entry
\* at its index, the length and every other entry unchanged; with a new name
\* it appends one entry; the names of the list stay pairwise distinct.
C22_ReplaceInPlace ==
    /\ (h.op \in {"add_attr", "edit_attr"} /\ Stored) =>
           IF Named(AttrsBefore, h.text.tuple[1].items[1])
           THEN /\ Len(AttrsNow) = Len(AttrsBefore)
                /\ \A i \in 1..Len(AttrsBefore) :
                       AttrsNow[i] = IF AttrsBefore[i][1] = h.text.tuple[1]
                                     THEN h.text.tuple ELSE AttrsBefore[i]
           ELSE AttrsNow = Append(AttrsBefore, h.text.tuple)
    /\ \A i, j \in 1..Len(AttrsNow) :
           i # j => AttrsNow[i][1] # AttrsNow[j][1]

\* the first of two entries was replaced where it stood
C22_Witness ==
    /\ h.op = "add_attr" /\ Stored
    /\ Len(AttrsBefore) = 2 /\ Len(AttrsNow) = 2
    /\ AttrsNow[1] = h.text.tuple /\ AttrsNow[1] # AttrsBefore[1]
    /\ AttrsNow[2] = AttrsBefore[2]

\* an entry of a new name was appended to a list that had an entry
C22_WitnessAppend ==
    /\ h.op = "add_attr" /\ Stored
    /\ Len(AttrsBefore) = 1 /\ Len(AttrsNow) = 2

\* C23: attribute input without "=" or with an empty name is recovered
\* locally: the template is not mutated, nothing is raised and the text
\* returned is the usage message.
C23_MalformedRecovered ==
    (/\ h.op = "add_attr"
     /\ \/ ~Contains(h.args[1], "=")
        \/ EnteredParts[1] = <<>>) =>
        /\ ~h.raised
        /\ olc_prototype = h.prev
        /\ h.text.msg = "usage"

\* C24: _add_tag with edit=old, old a tag of the list, puts the new entry
\* at the index of the old one, the length and the other entries unchanged;
\* without edit it appends exactly one entry.  The new tag is one with a
\* name: a tag without a name is answered with the usage text.
C24_EditKeepsIndex ==
    /\ (h.op = "edit_tag" /\ Named(TagsBefore, h.args[1])
        /\ split_max(lower(strip(h.args[2])), ";", 2)[1] # <<>>) =>
           /\ Stored
           /\ Len(TagsNow) = Len(TagsBefore)
           /\ \A i \in 1..Len(TagsBefore) :
                  TagsNow[i] = IF i = index(TagsBefore, h.args[1])
                               THEN h.text.tuple ELSE TagsBefore[i]
           /\ h.text.tuple[1] = Str(split_max(lower(strip(h.args[2])), ";", 2)[1])
    /\ (h.op = "add_tag" /\ Stored) => TagsNow = Append(TagsBefore, h.text.tuple)

\* the first of two tags was renamed where it stood
C24_Witness ==
    /\ h.op = "edit_tag" /\ Stored
    /\ Len(TagsBefore) = 2 /\ Len(TagsNow) = 2
    /\ TagsBefore[1][1] = Str(h.args[1])
    /\ TagsNow[1] = h.text.tuple /\ TagsNow[1][1] # TagsBefore[1][1]
    /\ TagsNow[2] = TagsBefore[2]

\* a tag was appended to a list that had tags
C24_WitnessAppend ==
    /\ h.op = "add_tag" /\ Stored
    /\ Len(TagsBefore) = 2 /\ Len(TagsNow) = 3

\* the key typed in the last turn names a saved prototype
KeyExists == search_prototype(Session, last.raw) # <<>>

\* the caller passes the edit lock of that prototype
MayEdit == check_lockstring(search_prototype(Session, last.raw)[1]["prototype_locks"])

\* C25: at the prototype-key node, the key of an existing template the caller
\* may not edit leaves the template and the new/loaded flag as they were,
\* sends the permission message and stays on node_prototype_key.
C25_NoPermissionStays ==
    [][(last'.fn = "_check_prototype_key" /\ KeyExists' /\ ~MayEdit') =>
           /\ olc_prototype' = olc_prototype
           /\ olc_new' = olc_new
           /\ \E k \in 1..Len(msgs') : msgs'[k] = "exists_no_permission"
           /\ node' = "node_prototype_key"]_vars

\* the key of the locked prototype was typed in a session started fresh
C25_Witness ==
    /\ last.fn = "_check_prototype_key" /\ last.raw = <<"1">>
    /\ KeyExists /\ ~MayEdit
    /\ olc_new = "True"
    /\ msgs = <<"exists_no_permission">>
    /\ node = "node_prototype_key"

\* the nodes wrapped by list_node
ListNodes ==
    {"node_prototype_parent", "node_typeclass", "node_attrs", "node_tags",
     "node_prototype_load"}

\* C26: in every list node, an empty selection or one beyond the items
\* listed leaves the template unchanged and the menu on the same node.
C26_OutOfRangeStays ==
    [][(/\ node \in ListNodes
        /\ last'.from = node
        /\ last'.option = "_default"
        /\ \/ last'.raw = <<>>
           \/ /\ last'.raw = <<"1">>
              /\ \A i \in 1..Len(options) : options[i].key # "item") =>
           /\ olc_prototype' = olc_prototype
           /\ node' = node]_vars

\* what _is_new_prototype answers in the current state
FlagNew == _is_new_prototype(Session)

\* the last turn put a saved prototype in place of the template
Loaded ==
    /\ last.fn \in {"_prototype_load_select", "_check_prototype_key"}
    /\ last.goto_ret = "node_index"

\* C27: the new/loaded flag is accurate in every reachable state:
\* _is_new_prototype is true exactly for a template started fresh, and false
\* once a template was given to start_olc, loaded at the load node, or
\* reloaded by its key.
C27_FlagAccurate ==
    /\ FlagNew <=> olc_prototype = EmptyDict
    /\ [][IF Loaded' THEN ~FlagNew' ELSE FlagNew' <=> FlagNew]_vars

\* the last turn reloaded a saved prototype by its key
Reloaded == last.fn = "_check_prototype_key" /\ last.goto_ret = "node_index"

\* C29: an accepted edit is in the template at once and no node transition
\* drops it: a field of the template changes only by an accepted edit of
\* that field or by a load at the load node.
C29_EditsKept ==
    [][\A f \in DOMAIN olc_prototype :
           (f \notin DOMAIN olc_prototype' \/ olc_prototype'[f] # olc_prototype[f]) =>
               \/ last'.fn = "_prototype_load_select"
               \/ /\ last'.fn # "" /\ node = "node_" \o f
                  /\ ~Reloaded' \/ f = "prototype_key"]_vars

\* the value an accepted input of the last turn was to store
AcceptedValue(i) == Processed(last'.raw, options[i].goto.kwargs).value

\* C29 (amended): an accepted edit is in the template at once and no node
\* transition drops it: a field of the template changes only by an accepted
\* edit of that field, by a load at the load node, or by the reload that
\* entering an existing key at the prototype-key node performs.
C29_EditsKeptButReload ==
    [][/\ \A f \in DOMAIN olc_prototype :
              (f \notin DOMAIN olc_prototype' \/ olc_prototype'[f] # olc_prototype[f]) =>
                  \/ last'.fn = "_prototype_load_select"
                  \/ Reloaded'
                  \/ last'.fn # "" /\ node = "node_" \o f
       /\ \A i \in 1..Len(options) :
              (/\ options[i].key = "_default"
               /\ options[i].goto.fn = "_set_property"
               /\ last'.fn = "_set_property"
               /\ last'.option = "_default"
               /\ last'.from = node
               /\ \E k \in 1..Len(msgs') : msgs'[k] = "set") =>
                  /\ options[i].goto.kwargs.prop \in DOMAIN olc_prototype'
                  /\ olc_prototype'[options[i].goto.kwargs.prop] = AcceptedValue(i)]_vars

\* a reload by key replaced a template that held an edit
C29_Witness ==
    /\ Reloaded
    /\ ~last.same
    /\ muts = MaxMuts + 1

\* an accepted edit was followed by a plain navigation that kept it
C29_WitnessKept ==
    /\ muts = 1 /\ last.fn = "" /\ last.outcome = "pair" /\ last.same
    /\ last.option \in {"back", "forward", "index"}
    /\ olc_prototype \notin {EmptyDict, ProtoA, Proto1}

\* C30: at the prototype-key node, the key of an existing template the caller
\* may edit makes that template the in-progress one and opens node_index, in
\* every session state: fresh, loaded, or reloaded before.
C30_ExistingKeyReloads ==
    (last.fn = "_check_prototype_key" /\ KeyExists /\ MayEdit) =>
        /\ node = "node_index"
        /\ olc_prototype = search_prototype(Session, last.raw)[1]

\* the items the active list node offers to the select callable fn
ItemsOf(fn) ==
    {options[i].goto.kwargs.selection :
        i \in {j \in 1..Len(options) :
                  options[j].key = "item" /\ options[j].goto.fn = fn}}

\* the last turn, taken from the active node, wrote one of items into field
\* and opened next_node
SelectWrote(items, field, next_node) ==
    /\ field \in DOMAIN olc_prototype'
    /\ olc_prototype'[field] \in {Str(item) : item \in items}
    /\ node' = next_node

\* C31: selecting an item of a list node with a select callable writes the
\* item into the field: a template of the parent list becomes
\* prototype_parent and node_typeclass opens, a typeclass becomes typeclass
\* and node_key opens.
C31_SelectWrites ==
    [][/\ (last'.fn = "_prototype_parent_select" /\ last'.from = node) =>
              SelectWrote(ItemsOf("_prototype_parent_select"), "prototype_parent",
                          "node_typeclass")
       /\ (last'.fn = "_typeclass_select" /\ last'.from = node) =>
              SelectWrote(ItemsOf("_typeclass_select"), "typeclass", "node_key")]_vars

\* the value the last accepted input was to store
FieldValue == Processed(h.raw, field_default(h.field)).value

\* C32: the template key written by the default handler of a free-text field
\* node node_<f> is f itself: after an accepted non-empty input the
\* template's entry f holds the processed input.
C32_WritesOwnField ==
    /\ (h.op = "accept" /\ Truthy(FieldValue)) =>
           /\ h.field \in DOMAIN olc_prototype
           /\ olc_prototype[h.field] = FieldValue
    /\ (h.op = "accept_key" /\ h.ret = "node_prototype_parent"
        /\ lower(strip(h.raw)) # <<>>) =>
           /\ "prototype_key" \in DOMAIN olc_prototype
           /\ olc_prototype["prototype_key"] = Str(lower(strip(h.raw)))

\* C36: the flattened template _get_flat_menu_prototype returns, and with it
\* every inherited value _get_current_value reports, is
\* spawner.flatten_prototype of the in-progress template, after any edits,
\* loads and reloads.
C36_FlatCoherent ==
    (h.op = "show" /\ h.called) => h.flat = Flat(Session)

\* an entry of the template's attrs list is a tuple of four values; a text
\* typed at node_attrs is stored as the text itself, of up to three characters
AttrsItems == olc_prototype["attrs"].items

\* C33: in every state reached from a fresh session the attrs entry of the
\* template, when present, is a list of 4-tuples (name, value, category,
\* locks) with pairwise distinct names, also after free text at node_attrs.
C33_AttrsAreTuples ==
    (olc_new = "True" /\ "attrs" \in DOMAIN olc_prototype) =>
        /\ \A i \in 1..Len(AttrsItems) : Len(AttrsItems[i]) = 4
        /\ \A i, j \in 1..Len(AttrsItems) :
               i # j => AttrsItems[i][1] # AttrsItems[j][1]

\* the keys of the options the node gave when it was run again
RerunKeys == {h.rerun.options[i].key : i \in 1..Len(h.rerun.options)}

\* C34: after a keep-as-is override node_update_objects is shown again for
\* the same diff and the same sampled object: the field kept has no option
\* any more, every other entry keeps its classification, and the update,
\* reset and back options are there.
C34_RerenderedAfterKeep ==
    (h.phase = "shown" /\ h.op = "keep") =>
        /\ h.rerun.ret = "pair"
        /\ {"update", "reset", "back"} \subseteq RerunKeys
        /\ ("keep " \o h.key) \notin RerunKeys
        /\ \A k \in DOMAIN h.prev.diff \ {h.key} : h.diff[k] = h.prev.diff[k]

\* the update option of the spawn submenu was chosen in this step
UpdateChosen == last'.option = "update existing" /\ last'.from = "node_prototype_spawn"

\* C35: at the spawn node of a template that validates and has N >= 1
\* spawned instances, the option to update the N existing objects enters
\* node_update_objects with exactly those N instances as the objects to
\* update and with node_prototype_spawn as the node to go back to
C35_UpdateGetsInstances == [][UpdateChosen => (/\ node' = "node_update_objects" /\ KwGet(node_kwargs', "objects", <<>>) = search_objects_with_prototype(Session, KeyOf(olc_prototype)) /\ KwGet(node_kwargs', "objects", <<>>) # <<>> /\ KwGet(node_kwargs', "back_node", "") = "node_prototype_spawn")]_vars

\* the nodes the Forward options among opts lead to
ForwardOf(opts) == {opts[i].goto.node : i \in {j \in 1..Len(opts) : opts[j].key = "forward"}}

\* the nodes the _default options among opts name as next_node
DefaultNext(opts) == {opts[i].goto.kwargs.next_node : i \in {j \in 1..Len(opts) : opts[j].key = "_default" /\ "next_node" \in DOMAIN opts[j].goto.kwargs}}

RECURSIVE ForwardReaches(_, _)
\* choosing Forward again and again from node n, the nodes of visited behind,
\* arrives at node_index: each node on the way is shown and offers Forward
ForwardReaches(n, visited) == IF n = "node_index" THEN TRUE ELSE n \notin visited /\ RunNode(n, Session, NoKwargs, 1).ret = "pair" /\ \E t \in ForwardOf(RunNode(n, Session, NoKwargs, 1).options) : ForwardReaches(t, visited \cup {n})

\* C37: from any field node, choosing Forward repeatedly reaches node_index
\* in finitely many steps without visiting a node twice, and the node that
\* accepting free text leads to (next_node) is that node's Forward target
C37_ForwardReachesIndex == node \in WizardNodes => (ForwardReaches(node, {}) /\ DefaultNext(options) \subseteq ForwardOf(options))

=============================================================================
